---- MODULE Spec2Model ----
(***************************************************************************)
(* Model of the assistant: the message collector                           *)
(* (src/assistant/collector.py), the configuration lookup it relies on     *)
(* (src/assistant/config.py), the summarizer (src/assistant/summarizer.py),*)
(* the summary storage (src/assistant/storage.py) and the command          *)
(* dispatcher (src/assistant/bot.py).                                      *)
(*                                                                         *)
(* Python strings are sequences of one-character strings, so that the      *)
(* conversions of the code (str.lower, str.strip, int(), str(int)) are     *)
(* computed and not assumed.  A fixed phrase of a message template is one  *)
(* element of such a sequence.  Time is counted in hours.                  *)
(***************************************************************************)
EXTENDS Integers, Sequences, FiniteSets, TLC

VARIABLES
    config,      \* AssistantConfig.chats: the list of ChatConfig
    last_ids,    \* MessageCollector._state["last_ids"]
    state_file,  \* content of <data_dir>/assistant_state.json
    chat_msgs,   \* the platform: entity -> messages of that chat, oldest first
    now,         \* datetime.now(), in hours
    pc,          \* "idle"; "collect" while collect_all_unread runs; "done" when a
                 \* call has returned and its caller holds what it returned
    collect_i,   \* collect_all_unread: index of the next chat of the loop
    result,      \* collect_all_unread: the dict `result`, in insertion order
    outcomes,    \* collect_all_unread: per get_unread call, the chat, how it ended
                 \* and what it returned
    op,          \* the last collector call: its name, arguments, locals, outcome
    ret,         \* the list that call returned
    period,      \* _parse_period: the argument
    parsed       \* _parse_period: the value returned or the exception raised

VARIABLES
    messages_by_chat,  \* generate_full: its argument, a dict in insertion order
    sum_pc,            \* generate_full: "idle", "loop" (between two chats), "call"
                       \* (a completion call is running), "done" (it has returned)
    sum_i,             \* generate_full: index of the entry the loop is at
    summaries,         \* generate_full: the list `summaries`
    in_flight,         \* the completion calls running in worker threads
    completions,       \* the completion calls made so far, in order of start, and
                       \* how each ended
    full               \* the FullSummary returned

VARIABLES
    updates,           \* Bot API server: the updates not yet confirmed, oldest first
    update_count,      \* Bot API server: how many updates were ever created
    _last_update_id,   \* AssistantBot._last_update_id
    _running,          \* AssistantBot._running
    loop_pc,           \* where AssistantBot.start is: "new", "loop", "polling",
                       \* "dispatch", "handling", "sleep_status", "sleep_error",
                       \* "stopped"
    poll_batch,        \* _poll_updates: the updates of data["result"] not yet handled
    handlers,          \* the command handlers in progress: one frame per handler,
                       \* its pc naming the call it is waiting for
    api_log,           \* the Bot API requests of the latest handler, in order
    effects,           \* what the latest handler did besides: fetches, completion calls
                       \* (and the prompt of each, with the batch it was made of),
                       \* whether it raised, and how many updates of the batch the
                       \* exception left undispatched
    storage            \* <data_dir>/summaries: file name -> content

collvars == <<config, last_ids, state_file, chat_msgs, now, pc, collect_i,
              result, outcomes, op, ret, period, parsed>>

sumvars == <<messages_by_chat, sum_pc, sum_i, summaries, in_flight, completions, full>>

botvars == <<updates, update_count, _last_update_id, _running, loop_pc, poll_batch,
             handlers, api_log, effects, storage>>

vars == <<collvars, sumvars, botvars>>

(***************************************************************************)
(* Bounds of the model.                                                    *)
(***************************************************************************)
MaxMsgs == 2         \* messages that ever exist on the platform
MaxTicks == 1        \* how many times the clock advances
TickHours == 360     \* one clock advance: 15 days, past the lookback window
CfgMaxMessages == 2  \* the largest max_messages of the configured chats
MaxPeriodLen == 3    \* length of the enumerated period tokens

(***************************************************************************)
(* Program and library constants.                                          *)
(***************************************************************************)
DEFAULT_FETCH_DAYS == 14
TimedeltaMaxDays == 999999999   \* datetime.timedelta.max.days
NowOrdinalDays == 739000        \* days from datetime.min to the model's hour 0
MaxOrdinalDays == 3652058       \* days from datetime.min to datetime.max

(***************************************************************************)
(* Strings.                                                                *)
(***************************************************************************)
Lower(c) ==
    CASE c = "H" -> "h" [] c = "D" -> "d" [] c = "W" -> "w" [] c = "X" -> "x"
      [] c = "N" -> "n" [] c = "O" -> "o" [] c = "R" -> "r" [] c = "K" -> "k"
      [] c = "E" -> "e" [] c = "S" -> "s" [] c = "F" -> "f" [] c = "A" -> "a"
      [] c = "M" -> "m"
      [] OTHER -> c

LowerStr(s) == [i \in 1..Len(s) |-> Lower(s[i])]

IsSpace(c) == c \in {" ", "\n"}

RECURSIVE LStrip(_)
LStrip(s) == IF s # <<>> /\ IsSpace(Head(s)) THEN LStrip(Tail(s)) ELSE s

RECURSIVE RStrip(_)
RStrip(s) ==
    IF s # <<>> /\ IsSpace(s[Len(s)]) THEN RStrip(SubSeq(s, 1, Len(s) - 1)) ELSE s

Strip(s) == RStrip(LStrip(s))

DigitChars == {"0", "1", "2", "3", "4", "5", "6", "7", "8", "9"}

DigitVal(c) ==
    CASE c = "0" -> 0 [] c = "1" -> 1 [] c = "2" -> 2 [] c = "3" -> 3
      [] c = "4" -> 4 [] c = "5" -> 5 [] c = "6" -> 6 [] c = "7" -> 7
      [] c = "8" -> 8 [] c = "9" -> 9

DigitChar(d) == <<"0", "1", "2", "3", "4", "5", "6", "7", "8", "9">>[d + 1]

RECURSIVE DigitsVal(_)
DigitsVal(s) ==
    IF s = <<>> THEN 0
    ELSE DigitsVal(SubSeq(s, 1, Len(s) - 1)) * 10 + DigitVal(s[Len(s)])

\* int(s): surrounding whitespace is stripped, one optional sign, then digits
\* with single underscores allowed between them; anything else is a ValueError.
PyInt(s) ==
    LET t == Strip(s)
        signed == t # <<>> /\ Head(t) \in {"-", "+"}
        neg == t # <<>> /\ Head(t) = "-"
        body == IF signed THEN Tail(t) ELSE t
        wellFormed ==
            /\ body # <<>>
            /\ \A i \in 1..Len(body) : body[i] \in DigitChars \cup {"_"}
            /\ Head(body) # "_"
            /\ body[Len(body)] # "_"
            /\ \A i \in 1..(Len(body) - 1) : ~(body[i] = "_" /\ body[i + 1] = "_")
        digits == SelectSeq(body, LAMBDA c : c # "_")
    IN  IF wellFormed
        THEN [ok |-> TRUE, val |-> IF neg THEN 0 - DigitsVal(digits) ELSE DigitsVal(digits)]
        ELSE [ok |-> FALSE, val |-> 0]

RECURSIVE NatToStr(_)
NatToStr(n) ==
    IF n < 10 THEN <<DigitChar(n)>> ELSE NatToStr(n \div 10) \o <<DigitChar(n % 10)>>

\* str(n) of an int
IntToStr(n) == IF n < 0 THEN <<"-">> \o NatToStr(0 - n) ELSE NatToStr(n)

(***************************************************************************)
(* datetime.timedelta: a value is normalised to days and seconds of the    *)
(* day; a magnitude above 999999999 days raises OverflowError.             *)
(***************************************************************************)
Duration(d, s) == [raised |-> FALSE, days |-> d, seconds |-> s]

Overflow == [raised |-> TRUE, days |-> 0, seconds |-> 0]

TimedeltaDays(n) ==
    IF n > TimedeltaMaxDays \/ n < 0 - TimedeltaMaxDays THEN Overflow ELSE Duration(n, 0)

TimedeltaHours(n) ==
    LET d == n \div 24
    IN  IF d > TimedeltaMaxDays \/ d < 0 - TimedeltaMaxDays
        THEN Overflow
        ELSE Duration(d, (n % 24) * 3600)

TimedeltaWeeks(n) ==
    IF n > TimedeltaMaxDays \div 7 \/ n < 0 - (TimedeltaMaxDays \div 7)
    THEN Overflow
    ELSE Duration(7 * n, 0)

\* MessageCollector._parse_period.  ValueError (from int) is caught and gives
\* one day; OverflowError (from timedelta) is not in the except clause.
_parse_period_no_lower(p) ==
    IF p = <<>> THEN Duration(1, 0)
    ELSE LET num == PyInt(SubSeq(p, 1, Len(p) - 1))
             unit == p[Len(p)]
         IN  IF ~num.ok THEN Duration(1, 0)
             ELSE CASE unit = "h" -> TimedeltaHours(num.val)
                    [] unit = "d" -> TimedeltaDays(num.val)
                    [] unit = "w" -> TimedeltaWeeks(num.val)
                    [] OTHER -> TimedeltaDays(num.val)

_parse_period(p) ==
    IF p = <<>> THEN Duration(1, 0)
    ELSE LET num == PyInt(SubSeq(p, 1, Len(p) - 1))
             unit == Lower(p[Len(p)])
         IN  IF ~num.ok THEN Duration(1, 0)
             ELSE CASE unit = "h" -> TimedeltaHours(num.val)
                    [] unit = "d" -> TimedeltaDays(num.val)
                    [] unit = "w" -> TimedeltaWeeks(num.val)
                    [] OTHER -> TimedeltaDays(num.val)

(***************************************************************************)
(* Python dicts with string keys, as functions on the set of their keys.   *)
(***************************************************************************)
EmptyMap == [k \in {} |-> 0]

Get(m, k, default) == IF k \in DOMAIN m THEN m[k] ELSE default

Put(m, k, v) == [x \in (DOMAIN m) \cup {k} |-> IF x = k THEN v ELSE m[x]]

Pop(m, k) == [x \in (DOMAIN m) \ {k} |-> m[x]]

Min(a, b) == IF a < b THEN a ELSE b

\* the first n elements of s, or all of s
Take(s, n) == SubSeq(s, 1, Min(n, Len(s)))

RECURSIVE Reverse(_)
Reverse(s) == IF s = <<>> THEN <<>> ELSE Append(Reverse(Tail(s)), Head(s))

StartsWith(s, prefix) ==
    Len(s) >= Len(prefix) /\ SubSeq(s, 1, Len(prefix)) = prefix

(***************************************************************************)
(* Configuration (src/assistant/config.py).  chat_id 0 stands for an       *)
(* absent chat_id and identifier <<>> for an absent identifier: the code   *)
(* tests both by truthiness only.                                          *)
(***************************************************************************)
ChatConfig(name, ident, id, prio, max) ==
    [display_name |-> name, identifier |-> ident, chat_id |-> id,
     priority |-> prio, max_messages |-> max]

\* a chat given by chat_id
WorkChat == ChatConfig(<<"W", "o", "r", "k">>, <<>>, 7, "high", CfgMaxMessages)

\* a chat given by a handle, fetched one message at a time
NewsChat == ChatConfig(<<"N", "e", "w", "s">>, <<"@", "n">>, 0, "low", 1)

\* a chat with neither chat_id nor identifier: the loader accepts it
FamChat == ChatConfig(<<"F", "a", "m">>, <<>>, 0, "medium", CfgMaxMessages)

ConfigChoices == {<<WorkChat, NewsChat, FamChat>>}

\* AssistantConfig.get_chat: index of the first chat whose display_name
\* equals the name ignoring case, 0 for None.
get_chat_exact_case(chats, name) ==
    LET hits == {i \in 1..Len(chats) : chats[i].display_name = name}
    IN  IF hits = {} THEN 0 ELSE CHOOSE i \in hits : \A j \in hits : i <= j

get_chat(chats, name) ==
    LET name_lower == LowerStr(name)
        hits == {i \in 1..Len(chats) : LowerStr(chats[i].display_name) = name_lower}
    IN  IF hits = {} THEN 0 ELSE CHOOSE i \in hits : \A j \in hits : i <= j

\* AssistantConfig.get_chat_names
get_chat_names(chats) == [i \in 1..Len(chats) |-> chats[i].display_name]

\* str(chat_config.chat_id or chat_config.identifier)
ChatKey(c) ==
    IF c.chat_id # 0 THEN IntToStr(c.chat_id)
    ELSE IF c.identifier # <<>> THEN c.identifier
    ELSE <<"N", "o", "n", "e">>

(***************************************************************************)
(* The messaging platform as the collector sees it.                        *)
(***************************************************************************)
Entities == {7, 9}

Handles == [h \in {<<"@", "n">>} |-> 9]

Dialogs == <<[title |-> <<"W", "o", "r", "k">>, id |-> 7]>>

\* the kinds of message that are posted: one with text, one with a media
\* payload that counts as content, one with neither
MsgKinds == {"text", "voice", "photo"}

TotalMsgs == Len(chat_msgs[7]) + Len(chat_msgs[9])

Resolved(e) == [raised |-> FALSE, entity |-> e]

ResolveError == [raised |-> TRUE, entity |-> 0]

\* client.get_entity
GetEntity(ident, platformOk) ==
    IF platformOk /\ ident \in DOMAIN Handles THEN Resolved(Handles[ident]) ELSE ResolveError

\* MessageCollector._resolve_chat
_resolve_chat_defaults(c, platformOk) ==
    IF c.chat_id # 0 THEN Resolved(c.chat_id)
    ELSE IF c.identifier # <<>> THEN GetEntity(Strip(c.identifier), platformOk)
    ELSE Resolved(7)

_resolve_chat(c, platformOk) ==
    IF c.chat_id # 0 THEN Resolved(c.chat_id)
    ELSE IF c.identifier # <<>>
    THEN LET identifier == Strip(c.identifier)
             titled == {i \in 1..Len(Dialogs) :
                            LowerStr(Dialogs[i].title) = LowerStr(identifier)}
         IN  IF StartsWith(identifier, <<"@">>) \/ StartsWith(identifier, <<"h", "t", "t", "p">>)
                \/ StartsWith(identifier, <<"t", ".", "m", "e", "/">>)
             THEN GetEntity(identifier, platformOk)
             ELSE IF ~platformOk THEN ResolveError
             ELSE IF titled # {}
             THEN Resolved(Dialogs[CHOOSE i \in titled : \A j \in titled : i <= j].id)
             ELSE GetEntity(identifier, platformOk)
    ELSE ResolveError

\* client.iter_messages: with reverse, the messages with id above min_id and
\* date after offset_date, oldest first; without reverse, the messages dated
\* before offset_date, newest first; at most limit of them.
IterMessages(e, offset_date, min_id, reverse, limit) ==
    LET sel == IF reverse
               THEN SelectSeq(chat_msgs[e], LAMBDA m : m.id > min_id /\ m.date > offset_date)
               ELSE Reverse(SelectSeq(chat_msgs[e], LAMBDA m : m.date < offset_date))
    IN  Take(sel, limit)

\* line 120: msg.text or msg.message or msg.voice or msg.video_note or msg.audio
HasContent_any(m) == TRUE

HasContent(m) == m.kind \in {"text", "voice", "video_note", "audio"}

\* line 168: msg.text or msg.message
HasText(m) == m.kind = "text"

MaxId(msgs) == CHOOSE x \in {msgs[i].id : i \in 1..Len(msgs)} :
                   \A j \in 1..Len(msgs) : msgs[j].id <= x

(***************************************************************************)
(* The state file.                                                         *)
(***************************************************************************)
\* MessageCollector._load_state
_load_state(file) == IF file.exists THEN file.last_ids ELSE EmptyMap

\* MessageCollector._save_state: the whole mapping is written
_save_state(m) == [exists |-> TRUE, last_ids |-> m]

(***************************************************************************)
(* MessageCollector.get_unread.  platformOk and failAt are the platform's  *)
(* part: whether resolution works, and after how many yielded messages the *)
(* iteration raises (-1: it does not).  The value is what the call leaves: *)
(* the returned list, the checkpoint map and whether the file was written. *)
(***************************************************************************)
get_unread_no_guard(c, platformOk, failAt) ==
    LET r == _resolve_chat(c, platformOk)
        chat_key == ChatKey(c)
        last_id == Get(last_ids, chat_key, 0)
        since_date == now - DEFAULT_FETCH_DAYS * 24
        batch == IterMessages(r.entity, since_date, last_id, TRUE, c.max_messages)
        seen == IF failAt < 0 THEN batch ELSE Take(batch, failAt)
        messages == SelectSeq(seen, HasContent)
    IN  IF r.raised
        THEN [outcome |-> "resolve_failed", messages |-> <<>>, last_ids |-> last_ids,
              saved |-> FALSE, key |-> chat_key, last_id |-> 0, available |-> 0,
              fetched |-> FALSE]
        ELSE IF failAt >= 0
        THEN [outcome |-> "fetch_failed", messages |-> messages, last_ids |-> last_ids,
              saved |-> FALSE, key |-> chat_key, last_id |-> last_id,
              available |-> Len(batch), fetched |-> TRUE]
        ELSE [outcome |-> "ok", messages |-> messages,
              last_ids |-> Put(last_ids, chat_key,
                               IF messages # <<>> THEN MaxId(messages) ELSE 0),
              saved |-> TRUE, key |-> chat_key, last_id |-> last_id,
              available |-> Len(batch), fetched |-> TRUE]

get_unread_oldest_id(c, platformOk, failAt) ==
    LET r == _resolve_chat(c, platformOk)
        chat_key == ChatKey(c)
        last_id == Get(last_ids, chat_key, 0)
        since_date == now - DEFAULT_FETCH_DAYS * 24
        batch == IterMessages(r.entity, since_date, last_id, TRUE, c.max_messages)
        seen == IF failAt < 0 THEN batch ELSE Take(batch, failAt)
        messages == SelectSeq(seen, HasContent)
    IN  IF r.raised
        THEN [outcome |-> "resolve_failed", messages |-> <<>>, last_ids |-> last_ids,
              saved |-> FALSE, key |-> chat_key, last_id |-> 0, available |-> 0,
              fetched |-> FALSE]
        ELSE IF failAt >= 0
        THEN [outcome |-> "fetch_failed", messages |-> messages, last_ids |-> last_ids,
              saved |-> FALSE, key |-> chat_key, last_id |-> last_id,
              available |-> Len(batch), fetched |-> TRUE]
        ELSE IF messages # <<>>
        THEN [outcome |-> "ok", messages |-> messages,
              last_ids |-> Put(last_ids, chat_key, messages[1].id),
              saved |-> TRUE, key |-> chat_key, last_id |-> last_id,
              available |-> Len(batch), fetched |-> TRUE]
        ELSE [outcome |-> "ok", messages |-> <<>>, last_ids |-> last_ids,
              saved |-> FALSE, key |-> chat_key, last_id |-> last_id,
              available |-> Len(batch), fetched |-> TRUE]

get_unread(c, platformOk, failAt) ==
    LET r == _resolve_chat(c, platformOk)
        chat_key == ChatKey(c)
        last_id == Get(last_ids, chat_key, 0)
        since_date == now - DEFAULT_FETCH_DAYS * 24
        batch == IterMessages(r.entity, since_date, last_id, TRUE, c.max_messages)
        seen == IF failAt < 0 THEN batch ELSE Take(batch, failAt)
        messages == SelectSeq(seen, HasContent)
    IN  IF r.raised
        THEN [outcome |-> "resolve_failed", messages |-> <<>>, last_ids |-> last_ids,
              saved |-> FALSE, key |-> chat_key, last_id |-> 0, available |-> 0,
              fetched |-> FALSE]
        ELSE IF failAt >= 0
        THEN \* the except clause logs; `return messages` hands out what was appended
             [outcome |-> "fetch_failed", messages |-> messages, last_ids |-> last_ids,
              saved |-> FALSE, key |-> chat_key, last_id |-> last_id,
              available |-> Len(batch), fetched |-> TRUE]
        ELSE IF messages # <<>>
        THEN [outcome |-> "ok", messages |-> messages,
              last_ids |-> Put(last_ids, chat_key, MaxId(messages)),
              saved |-> TRUE, key |-> chat_key, last_id |-> last_id,
              available |-> Len(batch), fetched |-> TRUE]
        ELSE [outcome |-> "ok", messages |-> <<>>, last_ids |-> last_ids,
              saved |-> FALSE, key |-> chat_key, last_id |-> last_id,
              available |-> Len(batch), fetched |-> TRUE]

(***************************************************************************)
(* MessageCollector.get_for_period.  `since = datetime.now() - offset`     *)
(* raises OverflowError when the date leaves datetime's range; that line   *)
(* and the call of _parse_period are outside the try blocks.               *)
(***************************************************************************)
NotCalled == [raised |-> FALSE, days |-> 0, seconds |-> 0 - 1]

SinceOf(offset) ==
    IF offset.days > MaxOrdinalDays \/ offset.days < 0 - MaxOrdinalDays
    THEN [raised |-> TRUE, at |-> 0]
    ELSE LET at == now - (offset.days * 24 + offset.seconds \div 3600)
             ordinal == NowOrdinalDays * 24 + at
         IN  IF ordinal < 0 \/ ordinal > MaxOrdinalDays * 24 + 23
             THEN [raised |-> TRUE, at |-> 0]
             ELSE [raised |-> FALSE, at |-> at]

get_for_period_advances(c, p, platformOk, failAt) ==
    LET r == _resolve_chat(c, platformOk)
        offset == _parse_period(p)
        since == SinceOf(offset)
        batch == IterMessages(r.entity, since.at, 0, FALSE, c.max_messages)
        seen == IF failAt < 0 THEN batch ELSE Take(batch, failAt)
        messages == SelectSeq(seen, HasText)
    IN  IF r.raised
        THEN [outcome |-> "resolve_failed", messages |-> <<>>, last_ids |-> last_ids,
              saved |-> FALSE, parsed |-> NotCalled, available |-> 0, fetched |-> FALSE]
        ELSE IF offset.raised \/ since.raised
        THEN [outcome |-> "raised", messages |-> <<>>, last_ids |-> last_ids,
              saved |-> FALSE, parsed |-> offset, available |-> 0, fetched |-> FALSE]
        ELSE [outcome |-> IF failAt >= 0 THEN "fetch_failed" ELSE "ok",
              messages |-> messages,
              last_ids |-> IF messages # <<>>
                           THEN Put(last_ids, ChatKey(c), MaxId(messages))
                           ELSE last_ids,
              saved |-> messages # <<>>, parsed |-> offset, available |-> Len(batch),
              fetched |-> TRUE]

get_for_period(c, p, platformOk, failAt) ==
    LET r == _resolve_chat(c, platformOk)
        offset == _parse_period(p)
        since == SinceOf(offset)
        batch == IterMessages(r.entity, since.at, 0, FALSE, c.max_messages)
        seen == IF failAt < 0 THEN batch ELSE Take(batch, failAt)
        messages == SelectSeq(seen, HasText)
    IN  IF r.raised
        THEN [outcome |-> "resolve_failed", messages |-> <<>>, last_ids |-> last_ids,
              saved |-> FALSE, parsed |-> NotCalled, available |-> 0, fetched |-> FALSE]
        ELSE IF offset.raised \/ since.raised
        THEN [outcome |-> "raised", messages |-> <<>>, last_ids |-> last_ids,
              saved |-> FALSE, parsed |-> offset, available |-> 0, fetched |-> FALSE]
        ELSE [outcome |-> IF failAt >= 0 THEN "fetch_failed" ELSE "ok",
              messages |-> messages, last_ids |-> last_ids,
              saved |-> FALSE, parsed |-> offset, available |-> Len(batch), fetched |-> TRUE]

(***************************************************************************)
(* MessageCollector.reset_state: the checkpoint map it leaves.  name <<>>  *)
(* is None (or the empty string, equally falsy).                           *)
(***************************************************************************)
reset_state_unknown_clears(chat_name) ==
    LET i == IF chat_name # <<>> THEN get_chat(config, chat_name) ELSE 0
    IN  IF i # 0 THEN Pop(last_ids, ChatKey(config[i])) ELSE EmptyMap

reset_state_by_name(chat_name) ==
    IF chat_name # <<>>
    THEN LET i == get_chat(config, chat_name)
         IN  IF i # 0 THEN Pop(last_ids, config[i].display_name) ELSE last_ids
    ELSE EmptyMap

reset_state(chat_name) ==
    IF chat_name # <<>>
    THEN LET i == get_chat(config, chat_name)
         IN  IF i # 0 THEN Pop(last_ids, ChatKey(config[i])) ELSE last_ids
    ELSE EmptyMap

\* result[key] = value on a dict kept in insertion order
DictSet(d, key, value) ==
    IF \E i \in 1..Len(d) : d[i].key = key
    THEN [i \in 1..Len(d) |-> IF d[i].key = key THEN [key |-> key, value |-> value] ELSE d[i]]
    ELSE Append(d, [key |-> key, value |-> value])

\* collect_all_unread, lines 190-191: `if messages: result[display_name] = ...`
CollectResult_keeps_empty(d, i, messages) ==
    DictSet(d, config[i].display_name, [chat |-> i, messages |-> messages])

CollectResult(d, i, messages) ==
    IF messages # <<>>
    THEN DictSet(d, config[i].display_name, [chat |-> i, messages |-> messages])
    ELSE d

(***************************************************************************)
(* Inputs of the commands.                                                 *)
(***************************************************************************)
NoOp == [name |-> "none", chat |-> 0, key |-> <<>>, last_id |-> 0,
         outcome |-> "none", arg |-> <<>>, fetched |-> FALSE]

\* names given to /reset: none, two configured chats in another case, an unknown one
ResetNames == {<<>>, <<"w", "o", "r", "k">>, <<"N", "E", "W", "S">>, <<"n", "o", "p", "e">>}

\* period tokens given to /chat
CmdPeriods == {<<"1", "W">>,
               <<"1", "0", "0", "0", "0", "0", "0", "0", "0", "0", "d">>}

(***************************************************************************)
(* The summarizer and the dispatcher after construction.                   *)
(***************************************************************************)
NoEffects == [fetches |-> 0, completions |-> 0, saves |-> 0, raised |-> FALSE,
              escaped |-> FALSE, abandoned |-> 0, prompts |-> <<>>]

\* Summarizer.__init__; no generate_full call made
SumIdle ==
    /\ messages_by_chat = <<>>
    /\ sum_pc = "idle"
    /\ sum_i = 0
    /\ summaries = <<>>
    /\ in_flight = {}
    /\ completions = <<>>
    /\ full = [chats |-> <<>>, aggregate |-> <<>>, generated_at |-> 0]

\* AssistantBot.__init__ and SummaryStorage.__init__; start not yet called
BotNew ==
    /\ updates = <<>>
    /\ update_count = 0
    /\ _last_update_id = 0
    /\ _running = FALSE
    /\ loop_pc = "new"
    /\ poll_batch = <<>>
    /\ handlers = {}
    /\ api_log = <<>>
    /\ effects = NoEffects
    /\ storage = EmptyMap

(***************************************************************************)
(* State after construction: no state file yet, nothing collected.         *)
(***************************************************************************)
Init ==
    /\ config \in ConfigChoices
    /\ state_file = [exists |-> FALSE, last_ids |-> EmptyMap]
    /\ last_ids = _load_state(state_file)
    /\ chat_msgs = [e \in Entities |-> <<>>]
    /\ now = 0
    /\ pc = "idle"
    /\ collect_i = 0
    /\ result = <<>>
    /\ outcomes = <<>>
    /\ op = NoOp
    /\ ret = <<>>
    /\ period = <<>>
    /\ parsed = NotCalled
    /\ SumIdle
    /\ BotNew

(***************************************************************************)
(* The environment: a message is posted in a chat; time passes.  Both are  *)
(* taken between the calls: a call is one fetch of each chat, and a        *)
(* message posted during it is either seen by it or found by the next one. *)
(***************************************************************************)
NewMessage ==
    /\ pc = "idle"
    /\ TotalMsgs < MaxMsgs
    /\ \E e \in Entities, k \in MsgKinds :
           chat_msgs' = [chat_msgs EXCEPT
                            ![e] = Append(@, [id |-> Len(@) + 1, date |-> now, kind |-> k])]
    /\ UNCHANGED <<sumvars, botvars, config, last_ids, state_file, now, pc, collect_i, result,
                   outcomes, op, ret, period, parsed>>

Tick ==
    /\ pc = "idle"
    /\ now < MaxTicks * TickHours
    /\ now' = now + TickHours
    /\ UNCHANGED <<sumvars, botvars, config, last_ids, state_file, chat_msgs, pc, collect_i, result,
                   outcomes, op, ret, period, parsed>>

(***************************************************************************)
(* MessageCollector.collect_all_unread: one step per iteration of its      *)
(* loop; the step of the last chat also returns.                           *)
(***************************************************************************)
(* What the platform does during one call: nothing wrong (NoFault), the    *)
(* resolution request fails (ResolveFault), or the message iteration       *)
(* raises after yielding k messages (k >= 0).                              *)
(***************************************************************************)
NoFault == 0 - 1

ResolveFault == 0 - 2

Faults == ResolveFault..CfgMaxMessages

UsesPlatformToResolve(c) == c.chat_id = 0 /\ c.identifier # <<>>

PlatformOk(fault) == fault # ResolveFault

FailAt(fault) == IF fault >= 0 THEN fault ELSE 0 - 1

\* the faults that can happen to a call on chat c that finds `available` messages
FaultPossible(c, fault, raised, available) ==
    /\ fault = ResolveFault => UsesPlatformToResolve(c)
    /\ fault >= 0 => ~raised /\ fault <= available

\* what a call leaves in op/ret when it has not been made
Cleared ==
    /\ op' = NoOp
    /\ ret' = <<>>
    /\ period' = <<>>
    /\ parsed' = NotCalled

(***************************************************************************)
(* MessageCollector.collect_all_unread: one step per iteration of its      *)
(* loop; the step of the last chat also returns.                           *)
(***************************************************************************)
CollectStart ==
    /\ pc = "idle"
    /\ pc' = "collect"
    /\ collect_i' = 1
    /\ result' = <<>>
    /\ outcomes' = <<>>
    /\ Cleared
    /\ UNCHANGED <<sumvars, botvars, config, last_ids, state_file, chat_msgs, now>>

CollectStep ==
    /\ pc = "collect"
    /\ \E fault \in Faults :
           LET c == config[collect_i]
               g == get_unread(c, PlatformOk(fault), FailAt(fault))
           IN  /\ FaultPossible(c, fault, g.outcome = "resolve_failed", g.available)
               /\ last_ids' = g.last_ids
               /\ state_file' = IF g.saved THEN _save_state(g.last_ids) ELSE state_file
               /\ ret' = g.messages
               /\ op' = [name |-> "get_unread", chat |-> collect_i, key |-> g.key,
                         last_id |-> g.last_id, outcome |-> g.outcome, arg |-> <<>>,
                         fetched |-> g.fetched]
               /\ result' = CollectResult(result, collect_i, g.messages)
               /\ outcomes' = Append(outcomes, [chat |-> collect_i, outcome |-> g.outcome,
                                                messages |-> g.messages])
    /\ collect_i' = collect_i + 1
    /\ pc' = IF collect_i >= Len(config) THEN "done" ELSE "collect"
    /\ period' = <<>>
    /\ parsed' = NotCalled
    /\ UNCHANGED <<sumvars, botvars, config, chat_msgs, now>>

(***************************************************************************)
(* /chat: MessageCollector.get_for_period for a configured chat.           *)
(***************************************************************************)
GetForPeriod ==
    /\ pc = "idle"
    /\ \E i \in 1..Len(config), p \in CmdPeriods, fault \in Faults :
           LET g == get_for_period(config[i], p, PlatformOk(fault), FailAt(fault))
           IN  /\ FaultPossible(config[i], fault, g.outcome # "ok" /\ g.outcome # "fetch_failed",
                                g.available)
               /\ last_ids' = g.last_ids
               /\ state_file' = IF g.saved THEN _save_state(g.last_ids) ELSE state_file
               /\ ret' = g.messages
               /\ op' = [name |-> "get_for_period", chat |-> i, key |-> ChatKey(config[i]),
                         last_id |-> 0, outcome |-> g.outcome, arg |-> p,
                         fetched |-> g.fetched]
               /\ period' = p
               /\ parsed' = g.parsed
    /\ pc' = "done"
    /\ UNCHANGED <<sumvars, botvars, config, chat_msgs, now, collect_i, result, outcomes>>

(***************************************************************************)
(* /reset: MessageCollector.reset_state, which always saves.               *)
(***************************************************************************)
ResetState ==
    /\ pc = "idle"
    /\ \E chat_name \in ResetNames :
           /\ last_ids' = reset_state(chat_name)
           /\ LET i == IF chat_name # <<>> THEN get_chat(config, chat_name) ELSE 0
                  key == IF i # 0 THEN ChatKey(config[i]) ELSE <<>>
              IN  op' = [name |-> "reset_state", chat |-> i, key |-> key,
                         last_id |-> Get(last_ids, key, 0), outcome |-> "ok",
                         arg |-> chat_name, fetched |-> FALSE]
    /\ state_file' = _save_state(last_ids')
    /\ ret' = <<>>
    /\ pc' = "done"
    /\ UNCHANGED <<sumvars, botvars, config, chat_msgs, now, collect_i, result, outcomes, period, parsed>>

(***************************************************************************)
(* The caller is finished with what the call returned.                     *)
(***************************************************************************)
Done ==
    /\ pc = "done"
    /\ pc' = "idle"
    /\ collect_i' = 0
    /\ result' = <<>>
    /\ outcomes' = <<>>
    /\ Cleared
    /\ UNCHANGED <<sumvars, botvars, config, last_ids, state_file, chat_msgs, now>>

(***************************************************************************)
(* The process is restarted: MessageCollector.__init__ loads the file.     *)
(***************************************************************************)
Restart ==
    /\ pc \in {"idle", "collect"}
    /\ last_ids' = _load_state(state_file)
    /\ pc' = "idle"
    /\ collect_i' = 0
    /\ result' = <<>>
    /\ outcomes' = <<>>
    /\ Cleared
    /\ UNCHANGED <<sumvars, botvars, config, state_file, chat_msgs, now>>

Next ==
    \/ NewMessage
    \/ Tick
    \/ CollectStart
    \/ CollectStep
    \/ GetForPeriod
    \/ ResetState
    \/ Done
    \/ Restart

Spec == Init /\ [][Next]_vars

(***************************************************************************)
(* The collector built with a configuration in which two chats have the    *)
(* same display_name: AssistantConfig.load does not compare the names.     *)
(***************************************************************************)
InitDup ==
    /\ config = <<WorkChat, [NewsChat EXCEPT !.display_name = WorkChat.display_name]>>
    /\ state_file = [exists |-> FALSE, last_ids |-> EmptyMap]
    /\ last_ids = _load_state(state_file)
    /\ chat_msgs = [e \in Entities |-> <<>>]
    /\ now = 0
    /\ pc = "idle"
    /\ collect_i = 0
    /\ result = <<>>
    /\ outcomes = <<>>
    /\ op = NoOp
    /\ ret = <<>>
    /\ period = <<>>
    /\ parsed = NotCalled
    /\ SumIdle
    /\ BotNew

SpecDup == InitDup /\ [][Next]_vars

(***************************************************************************)
(* _parse_period on its own: the token is drawn from every string of up to *)
(* MaxPeriodLen characters of an alphabet that has digits, sign, blank,    *)
(* underscore and unit letters, and from a few longer tokens.              *)
(***************************************************************************)
PeriodAlphabet == {"0", "1", "3", "-", " ", "_", "h", "d", "w", "x", "H", "W"}

LongTokens ==
    {<<"9", "9", "9", "9", "9", "9", "9", "9", "9", "d">>,
     <<"1", "0", "0", "0", "0", "0", "0", "0", "0", "0", "d">>,
     <<"-", "1", "0", "0", "0", "0", "0", "0", "0", "0", "0", "D">>,
     <<"1", "4", "2", "8", "5", "7", "1", "4", "2", "w">>,
     <<"1", "4", "2", "8", "5", "7", "1", "4", "3", "w">>,
     <<"1", "0", "0", "0", "0", "0", "0", "0", "0", "0", "x">>,
     <<"2", "0", "0", "0", "0", "0", "0", "0", "0", "0", "h">>}

PeriodTokens ==
    UNION {[1..n -> PeriodAlphabet] : n \in 0..MaxPeriodLen} \cup LongTokens

InitParse ==
    /\ config \in ConfigChoices
    /\ state_file = [exists |-> FALSE, last_ids |-> EmptyMap]
    /\ last_ids = EmptyMap
    /\ chat_msgs = [e \in Entities |-> <<>>]
    /\ now = 0
    /\ pc = "idle"
    /\ collect_i = 0
    /\ result = <<>>
    /\ outcomes = <<>>
    /\ op = NoOp
    /\ ret = <<>>
    /\ period \in PeriodTokens
    /\ parsed = NotCalled
    /\ SumIdle
    /\ BotNew

ParsePeriod ==
    /\ parsed = NotCalled
    /\ parsed' = _parse_period(period)
    /\ op' = [NoOp EXCEPT !.name = "_parse_period"]
    /\ UNCHANGED <<sumvars, botvars, config, last_ids, state_file, chat_msgs, now, pc, collect_i,
                   result, outcomes, ret, period>>

NextParse == ParsePeriod

SpecParse == InitParse /\ [][NextParse]_vars

(***************************************************************************)
(* Texts (src/assistant/summarizer.py).  "+" stands for the bullet U+2022. *)
(* The fixed phrases of the templates are written in English.              *)
(***************************************************************************)
PromptLines == 30      \* _format_messages: lines[-30:]
TextLimit == 500       \* _format_messages: text[:500]
MaxActions == 5        \* _extract_actions: actions[:5]
MinActionLen == 3      \* _extract_actions: len(action) > 3

RECURSIVE Join(_, _)
\* sep.join(lines)
Join(lines, sep) ==
    IF lines = <<>> THEN <<>>
    ELSE IF Len(lines) = 1 THEN lines[1]
    ELSE lines[1] \o <<sep>> \o Join(Tail(lines), sep)

RECURSIVE Split(_, _)
\* text.split(sep)
Split(text, sep) ==
    LET hits == {i \in 1..Len(text) : text[i] = sep}
    IN  IF hits = {} THEN <<text>>
        ELSE LET i == CHOOSE x \in hits : \A y \in hits : x <= y
             IN  <<SubSeq(text, 1, i - 1)>> \o Split(SubSeq(text, i + 1, Len(text)), sep)

RECURSIVE LStripChars(_, _)
\* s.lstrip(chars)
LStripChars(s, chars) ==
    IF s # <<>> /\ Head(s) \in chars THEN LStripChars(Tail(s), chars) ELSE s

\* s[-n:]
LastN(s, n) == IF Len(s) <= n THEN s ELSE SubSeq(s, Len(s) - n + 1, Len(s))

RECURSIVE Concat(_)
\* the concatenation of a list of lists
Concat(ss) == IF ss = <<>> THEN <<>> ELSE Head(ss) \o Concat(Tail(ss))

\* strftime("%d.%m.%Y"): the day
DateStr(t) == IntToStr(t \div 24)

\* strftime("%d.%m %H:%M") and strftime("%d.%m.%Y %H:%M"): the day and the time of day
TimeStr(t) == IntToStr(t \div 24) \o <<" ">> \o IntToStr(t % 24) \o <<":", "0", "0">>

BulletChars == {"-", "+", "*"}

\* Summarizer._extract_actions, lines 260-265: what one line contributes
ActionOfLine(raw) ==
    LET line == Strip(raw)
    IN  IF line # <<>> /\ Head(line) \in BulletChars
        THEN LET action == Strip(LStripChars(line, BulletChars \cup {" "}))
             IN  IF action # <<>> /\ Len(action) > MinActionLen THEN <<action>> ELSE <<>>
        ELSE <<>>

\* Summarizer._extract_actions
_extract_actions_uncapped(text) ==
    LET lines == Split(text, "\n")
    IN  Concat([i \in 1..Len(lines) |-> ActionOfLine(lines[i])])

_extract_actions(text) ==
    LET lines == Split(text, "\n")
    IN  Take(Concat([i \in 1..Len(lines) |-> ActionOfLine(lines[i])]), MaxActions)

(***************************************************************************)
(* Summarizer._format_messages.  The messages of the model carry no sender *)
(* and no duration, so every sender is "Unknown" and every duration empty; *)
(* the chats of the model have positive ids, for which _get_message_link   *)
(* gives the "(message <id>)" form.                                        *)
(***************************************************************************)
\* msg.text or msg.message or "[media]"
MsgText(m) == IF m.kind = "text" THEN <<"m">> \o IntToStr(m.id) ELSE <<"[media]">>

_get_message_link(m) == <<"(message ">> \o IntToStr(m.id) \o <<")">>

\* the MediaItem of one message, if it is a voice, video note or audio message
MediaItemsOf(m) ==
    LET item(emoji) == [emoji |-> emoji, label |-> m.kind, duration |-> <<>>,
                        link |-> _get_message_link(m), sender |-> <<>>]
    IN  IF m.kind = "voice" THEN <<item("mic")>>
        ELSE IF m.kind = "video_note" THEN <<item("circle")>>
        ELSE IF m.kind = "audio" THEN <<item("note")>>
        ELSE <<>>

\* the prompt line of one message
MessageLine(m) ==
    LET text == IF m.kind = "voice" THEN <<"[voice]">>
                ELSE IF m.kind = "video_note" THEN <<"[video_note]">>
                ELSE IF m.kind = "audio" THEN <<"[audio]">>
                ELSE IF Len(MsgText(m)) > TextLimit
                     THEN Take(MsgText(m), TextLimit) \o <<".", ".", ".">>
                     ELSE MsgText(m)
    IN  <<"[">> \o TimeStr(m.date) \o <<"] Unknown: ">> \o text

_format_messages(messages) ==
    LET rev == Reverse(messages)
        lines == [i \in 1..Len(rev) |-> MessageLine(rev[i])]
        dates == {rev[i].date : i \in 1..Len(rev)}
    IN  [messages_text |-> Join(LastN(lines, PromptLines), "\n"),
         oldest |-> IF dates = {} THEN <<"?">>
                    ELSE DateStr(CHOOSE d \in dates : \A e \in dates : d <= e),
         newest |-> IF dates = {} THEN <<"?">>
                    ELSE DateStr(CHOOSE d \in dates : \A e \in dates : d >= e),
         media_items |-> Concat([i \in 1..Len(rev) |-> MediaItemsOf(rev[i])])]

\* Summarizer._build_chat_prompt
_build_chat_prompt(chat_config, f, today) ==
    <<"Chat: ">> \o chat_config.display_name
        \o <<"\n", "Period: ">> \o f.oldest \o <<" - ">> \o f.newest
        \o <<"\n", "Today: ">> \o DateStr(today)
        \o <<"\n", "\n", "Messages:", "\n">> \o f.messages_text
        \o <<"\n", "\n", "---", "\n", "\n", "INSTRUCTIONS">>

(***************************************************************************)
(* Summarizer.summarize_chat.  `completion` is how the completion call     *)
(* ended: the text it returned (already stripped by _call_gpt) or the      *)
(* exception it raised.                                                    *)
(***************************************************************************)
ChatSummary(chat_name, priority, summary, actions, message_count, media_items) ==
    [chat_name |-> chat_name, priority |-> priority, summary |-> summary,
     actions |-> actions, message_count |-> message_count, media_items |-> media_items]

Returned(raw) == [raised |-> FALSE, text |-> Strip(raw)]

Raised(e) == [raised |-> TRUE, text |-> e]

\* line 70: `if not messages` returns before any completion call
NeedsCompletion_always(messages) == TRUE

NeedsCompletion(messages) == messages # <<>>

ErrorPrefix == <<"Error creating summary: ">>

summarize_chat_error_drops_batch(chat_config, messages, completion) ==
    IF ~NeedsCompletion(messages)
    THEN ChatSummary(chat_config.display_name, chat_config.priority, <<"No new messages">>, <<>>, 0, <<>>)
    ELSE IF ~completion.raised
    THEN ChatSummary(chat_config.display_name, chat_config.priority, completion.text,
                     _extract_actions(completion.text), Len(messages),
                     _format_messages(messages).media_items)
    ELSE ChatSummary(chat_config.display_name, chat_config.priority,
                     ErrorPrefix \o completion.text, <<>>, 0, <<>>)

summarize_chat(chat_config, messages, completion) ==
    IF ~NeedsCompletion(messages)
    THEN ChatSummary(chat_config.display_name, chat_config.priority, <<"No new messages">>, <<>>, 0, <<>>)
    ELSE IF ~completion.raised
    THEN ChatSummary(chat_config.display_name, chat_config.priority, completion.text,
                     _extract_actions(completion.text), Len(messages),
                     _format_messages(messages).media_items)
    ELSE ChatSummary(chat_config.display_name, chat_config.priority,
                     ErrorPrefix \o completion.text, <<>>, Len(messages),
                     _format_messages(messages).media_items)

(***************************************************************************)
(* Summarizer._build_aggregate.                                            *)
(***************************************************************************)
Priorities == <<"high", "medium", "low">>

\* lines 271-274: the dict by_priority
by_priority(ss) ==
    LET group(s) == IF s.priority \in {"high", "medium", "low"} THEN s.priority ELSE "medium"
    IN  [p \in {"high", "medium", "low"} |-> SelectSeq(ss, LAMBDA s : group(s) = p)]

Icon(p) == IF p = "high" THEN "red" ELSE IF p = "medium" THEN "yellow" ELSE "green"

GroupName(p) ==
    IF p = "high" THEN "High priority"
    ELSE IF p = "medium" THEN "Medium priority" ELSE "Low priority"

\* lines 302-304
MediaLine(item) ==
    <<item.emoji, " <a href=">> \o item.link \o <<">", item.label, "</a>">>
        \o (IF item.duration # <<>> THEN <<" (">> \o item.duration \o <<")">> ELSE <<>>)
        \o (IF item.sender # <<>> THEN <<" - ">> \o item.sender ELSE <<>>)

\* lines 293-304: the lines of one chat
ChatLines(s) ==
    <<<<"\n", "<b>">> \o s.chat_name \o <<"</b> (">> \o IntToStr(s.message_count)
          \o <<" msgs)">>,
      s.summary>>
        \o (IF s.media_items # <<>>
            THEN <<<<"\n", "<b>Audio/video</b>">>>>
                     \o [i \in 1..Len(s.media_items) |-> MediaLine(s.media_items[i])]
            ELSE <<>>)

\* lines 284-304: the lines of one priority group
GroupLines(ss, p) ==
    LET chats == by_priority(ss)[p]
    IN  IF chats = <<>> THEN <<>>
        ELSE <<<<"\n", Icon(p), " <b>", GroupName(p), "</b>">>>>
                 \o Concat([i \in 1..Len(chats) |-> ChatLines(chats[i])])

AggregateHeader(t) == <<"<b>Summary of ">> \o TimeStr(t) \o <<"</b>", "\n">>

NothingNew == <<"\n", "No new messages in the monitored chats.">>

_build_aggregate_low_first(ss, t) ==
    LET groups == GroupLines(ss, "low") \o GroupLines(ss, "medium") \o GroupLines(ss, "high")
    IN  Join(<<AggregateHeader(t)>> \o groups
                 \o (IF groups = <<>> THEN <<NothingNew>> ELSE <<>>), "\n")

_build_aggregate_no_notice(ss, t) ==
    LET groups == Concat([i \in 1..Len(Priorities) |-> GroupLines(ss, Priorities[i])])
    IN  Join(<<AggregateHeader(t)>> \o groups, "\n")

_build_aggregate(ss, t) ==
    LET groups == Concat([i \in 1..Len(Priorities) |-> GroupLines(ss, Priorities[i])])
    IN  Join(<<AggregateHeader(t)>> \o groups
                 \o (IF groups = <<>> THEN <<NothingNew>> ELSE <<>>), "\n")

(***************************************************************************)
(* Summarizer.generate_full as a function of its argument, of how the      *)
(* completion call of each entry ends, and of the time.                    *)
(***************************************************************************)
FullSummary(chats, aggregate, generated_at) ==
    [chats |-> chats, aggregate |-> aggregate, generated_at |-> generated_at]

generate_full(d, completion, t) ==
    LET ss == [i \in 1..Len(d) |->
                  summarize_chat(d[i].value.chat_config, d[i].value.messages, completion[i])]
    IN  FullSummary(ss, _build_aggregate(ss, t), t)

(***************************************************************************)
(* generate_full step by step: the argument is drawn from the dicts of up  *)
(* to MaxSumChats entries over four chats (one of them with a priority     *)
(* that is none of high, medium, low), each with no messages or with a     *)
(* text and a voice message.  asyncio.to_thread runs _call_gpt in a worker *)
(* thread and the coroutine waits for it.                                  *)
(***************************************************************************)
MaxSumChats == 3   \* entries of the argument of generate_full

SumChats ==
    {WorkChat, NewsChat, FamChat,
     ChatConfig(<<"O", "p", "s">>, <<>>, 5, "urgent", CfgMaxMessages)}

SumBatches == {<<>>, <<[id |-> 1, date |-> 0, kind |-> "text"],
                       [id |-> 2, date |-> 0, kind |-> "voice"]>>}

\* what the completion collaborator answers, and the exception it raises
CompletionOutcomes ==
    {Returned(<<"o", "k">>),
     Returned(<<" ", "-", " ", "c", "a", "l", "l", "\n", "*", "a", "b", "\n">>),
     Raised(<<"timeout">>)}

\* the dicts of up to MaxSumChats entries: the keys of a dict are distinct
SumInputs ==
    LET entries == {[key |-> c.display_name, value |-> [chat_config |-> c, messages |-> b]] :
                        c \in SumChats, b \in SumBatches}
    IN  UNION {{d \in [1..n -> entries] : \A i, j \in 1..n : i # j => d[i].key # d[j].key} :
                   n \in 0..MaxSumChats}

InitSum ==
    /\ config \in ConfigChoices
    /\ state_file = [exists |-> FALSE, last_ids |-> EmptyMap]
    /\ last_ids = EmptyMap
    /\ chat_msgs = [e \in Entities |-> <<>>]
    /\ now \in {0, TickHours}
    /\ pc = "idle"
    /\ collect_i = 0
    /\ result = <<>>
    /\ outcomes = <<>>
    /\ op = NoOp
    /\ ret = <<>>
    /\ period = <<>>
    /\ parsed = NotCalled
    /\ messages_by_chat \in SumInputs
    /\ sum_pc = "idle"
    /\ sum_i = 0
    /\ summaries = <<>>
    /\ in_flight = {}
    /\ completions = <<>>
    /\ full = [chats |-> <<>>, aggregate |-> <<>>, generated_at |-> 0]
    /\ BotNew

\* line 84: the coroutine is suspended until the worker thread is finished
AwaitCompletion_detached == "loop"

AwaitCompletion == "call"

\* generate_full is called: line 112
GenerateStart ==
    /\ sum_pc = "idle"
    /\ sum_pc' = "loop"
    /\ sum_i' = 1
    /\ UNCHANGED <<collvars, botvars, messages_by_chat, summaries, in_flight,
                   completions, full>>

\* summarize_chat for an entry without messages: lines 70-78
SummarizeEmpty ==
    /\ sum_pc = "loop"
    /\ sum_i <= Len(messages_by_chat)
    /\ LET e == messages_by_chat[sum_i].value
       IN  /\ ~NeedsCompletion(e.messages)
           /\ summaries' = Append(summaries,
                                  summarize_chat(e.chat_config, e.messages, Raised(<<>>)))
    /\ sum_i' = sum_i + 1
    /\ UNCHANGED <<collvars, botvars, messages_by_chat, sum_pc, in_flight,
                   completions, full>>

\* summarize_chat for an entry with messages, up to the completion call:
\* lines 80-84
CompletionStart ==
    /\ sum_pc = "loop"
    /\ sum_i <= Len(messages_by_chat)
    /\ LET e == messages_by_chat[sum_i].value
       IN  /\ NeedsCompletion(e.messages)
           /\ completions' =
                  Append(completions,
                         [entry |-> sum_i, ended |-> FALSE, outcome |-> Raised(<<>>),
                          prompt |-> _build_chat_prompt(e.chat_config,
                                                        _format_messages(e.messages), now)])
    /\ in_flight' = in_flight \cup {sum_i}
    /\ sum_i' = sum_i + 1
    /\ sum_pc' = AwaitCompletion
    /\ UNCHANGED <<collvars, botvars, messages_by_chat, summaries, full>>

\* the completion call returns or raises; summarize_chat returns: lines 85-105,
\* and generate_full appends: line 116
CompletionReturnFrom(answers) ==
    /\ \E i \in in_flight, outcome \in answers :
           LET e == messages_by_chat[i].value
           IN  /\ summaries' = Append(summaries,
                                      summarize_chat(e.chat_config, e.messages, outcome))
               /\ in_flight' = in_flight \ {i}
               /\ completions' = [j \in 1..Len(completions) |->
                                     IF completions[j].entry = i
                                     THEN [completions[j] EXCEPT !.ended = TRUE,
                                                                 !.outcome = outcome]
                                     ELSE completions[j]]
    /\ sum_pc' = "loop"
    /\ UNCHANGED <<collvars, botvars, messages_by_chat, sum_i, full>>

CompletionReturn == CompletionReturnFrom(CompletionOutcomes)

\* the loop is over: lines 118-124
GenerateReturn ==
    /\ sum_pc = "loop"
    /\ sum_i > Len(messages_by_chat)
    /\ in_flight = {}
    /\ full' = FullSummary(summaries, _build_aggregate(summaries, now), now)
    /\ sum_pc' = "done"
    /\ UNCHANGED <<collvars, botvars, messages_by_chat, sum_i, summaries, in_flight,
                   completions>>

NextSum ==
    \/ GenerateStart
    \/ SummarizeEmpty
    \/ CompletionStart
    \/ CompletionReturn
    \/ GenerateReturn

SpecSum == InitSum /\ [][NextSum]_vars

(***************************************************************************)
(* summarize_chat on the answers of the completion collaborator that are   *)
(* made of up to MaxRespLines lines, each of them a bullet line with text, *)
(* a bullet line with too short a text, a line without bullet, or a line   *)
(* that begins with two bullets.                                           *)
(***************************************************************************)
MaxRespLines == 6

ResponseLines ==
    {<<" ", "-", " ", "c", "a", "l", "l", " ">>,
     <<"*", "a", "b">>,
     <<"n", "o", "t", "e">>,
     <<"+", " ", "-", "d", "e", "e", "d">>}

InitExtract ==
    /\ config \in ConfigChoices
    /\ state_file = [exists |-> FALSE, last_ids |-> EmptyMap]
    /\ last_ids = EmptyMap
    /\ chat_msgs = [e \in Entities |-> <<>>]
    /\ now = 0
    /\ pc = "idle"
    /\ collect_i = 0
    /\ result = <<>>
    /\ outcomes = <<>>
    /\ op = NoOp
    /\ ret = <<>>
    /\ period = <<>>
    /\ parsed = NotCalled
    /\ messages_by_chat =
           <<[key |-> WorkChat.display_name,
              value |-> [chat_config |-> WorkChat,
                         messages |-> <<[id |-> 1, date |-> 0, kind |-> "text"]>>]]>>
    /\ sum_pc = "idle"
    /\ sum_i = 0
    /\ summaries = <<>>
    /\ in_flight = {}
    /\ completions = <<>>
    /\ full = [chats |-> <<>>, aggregate |-> <<>>, generated_at |-> 0]
    /\ BotNew

\* the completion call returns one of these answers: lines 84-94
ResponseReturn ==
    /\ in_flight # {}
    /\ CompletionReturnFrom(UNION {{Returned(Join(ls, "\n")) : ls \in [1..n -> ResponseLines]}
                                   : n \in 1..MaxRespLines})

NextExtract ==
    \/ GenerateStart
    \/ CompletionStart
    \/ ResponseReturn
    \/ GenerateReturn

SpecExtract == InitExtract /\ [][NextExtract]_vars

(***************************************************************************)
(* The command dispatcher (src/assistant/bot.py).                          *)
(*                                                                         *)
(* A handler in progress is a frame; its pc names the call the handler is  *)
(* suspended at.  api_log holds the sendMessage and editMessageText        *)
(* requests of the latest handler and effects what else it did; both start *)
(* afresh when the next handler starts.                                    *)
(***************************************************************************)
MaxUpdates == 2        \* updates the user ever sends

MaxTextLen == 4096     \* _send, _edit: text[:4096]

\* AssistantBot.chat_id, a string
BotChatId == <<"4", "2">>

SummaryText == <<"/", "s", "u", "m", "m", "a", "r", "y">>

ResetWorkText == <<"/", "r", "e", "s", "e", "t", " ", "w", "o", "r", "k">>

\* what the authorized user sends: /summary, "/chat work", /chat with a period
\* no timedelta holds, with a malformed one and with a negative one, /chat
\* for a chat that is not configured, "/reset work"; and what somebody else
\* sends
NewUpdates ==
    {[chat |-> 42, text |-> t] :
         t \in {SummaryText,
                <<"/", "c", "h", "a", "t", " ", "w", "o", "r", "k">>,
                <<"/", "c", "h", "a", "t", " ", "W", "o", "r", "k", " ",
                  "1", "0", "0", "0", "0", "0", "0", "0", "0", "0", "d">>,
                <<"/", "c", "h", "a", "t", " ", "F", "a", "m", "i", "l", "y", " ", "2", "d">>,
                <<"/", "c", "h", "a", "t", " ", "w", "o", "r", "k", " ", "x">>,
                <<"/", "c", "h", "a", "t", " ", "w", "o", "r", "k", " ", "-", "1", "d">>,
                ResetWorkText}}
        \cup {[chat |-> 77, text |-> ResetWorkText]}

\* the platform when the bot runs: two messages of the last days in one
\* chat, and a voice message and a text of the last hour in the other
BotPlatforms ==
    {[e \in Entities |->
         IF e = 7
         THEN <<[id |-> 1, date |-> 100, kind |-> "text"],
                [id |-> 2, date |-> 200, kind |-> "text"]>>
         ELSE <<[id |-> 1, date |-> TickHours - 1, kind |-> "voice"],
                [id |-> 2, date |-> TickHours - 1, kind |-> "text"]>>]}

\* str(message.get("chat", {}).get("id")): chat 0 stands for a message without chat
from_chat_id(u) == IF u.chat = 0 THEN <<"N", "o", "n", "e">> ELSE IntToStr(u.chat)

\* line 87
Authorized_anyone(u) == TRUE

Authorized(u) == from_chat_id(u) = BotChatId

Route_chat_first(text) ==
    IF StartsWith(text, <<"/", "s", "u", "m", "m", "a", "r", "y">>) THEN "summary"
    ELSE IF StartsWith(text, <<"/", "c", "h", "a", "t">>) THEN "chat"
    ELSE IF StartsWith(text, <<"/", "c", "h", "a", "t", "s">>) THEN "chats"
    ELSE IF StartsWith(text, <<"/", "h", "e", "l", "p">>) THEN "help"
    ELSE IF StartsWith(text, <<"/", "r", "e", "s", "e", "t">>) THEN "reset"
    ELSE "none"

\* lines 91-100: the handler the text is routed to
Route(text) ==
    IF StartsWith(text, <<"/", "s", "u", "m", "m", "a", "r", "y">>) THEN "summary"
    ELSE IF StartsWith(text, <<"/", "c", "h", "a", "t", " ">>) THEN "chat"
    ELSE IF StartsWith(text, <<"/", "c", "h", "a", "t", "s">>) THEN "chats"
    ELSE IF StartsWith(text, <<"/", "h", "e", "l", "p">>) THEN "help"
    ELSE IF StartsWith(text, <<"/", "r", "e", "s", "e", "t">>) THEN "reset"
    ELSE "none"

RECURSIVE SplitWs(_)
\* text.split(): the maximal runs of non-blank characters
SplitWs(text) ==
    LET t == LStrip(text)
        blanks == {i \in 1..Len(t) : IsSpace(t[i])}
    IN  IF t = <<>> THEN <<>>
        ELSE IF blanks = {} THEN <<t>>
        ELSE LET i == CHOOSE x \in blanks : \A y \in blanks : x <= y
             IN  <<SubSeq(t, 1, i - 1)>> \o SplitWs(SubSeq(t, i + 1, Len(t)))

\* _cmd_reset, lines 214-215; <<>> is None
ResetArg(text) == IF Len(text) > 7 THEN Strip(SubSeq(text, 8, Len(text))) ELSE <<>>

\* a request to the Bot API, and for sendMessage the message id _send returned
\* (0 is None)
Request(method, message_id, text, role, returned) ==
    [method |-> method, message_id |-> message_id, text |-> Take(text, MaxTextLen),
     role |-> role, returned |-> returned]

\* AssistantBot._send
_send(text, role, returned) == Request("sendMessage", 0, text, role, returned)

\* AssistantBot._edit: without a message id it sends a new message
_edit_resends(message_id, text, role) == _send(text, role, 0)

_edit(message_id, text, role) ==
    IF message_id = 0 THEN _send(text, role, 0)
    ELSE Request("editMessageText", message_id, text, role, 0)

\* the id the Bot API gives to the message a handler sends
NewMessageId(update_id) == 10 * update_id + Len(api_log) + 1

\* SummaryStorage.save, lines 24-27: the file name has the minute of generated_at
FileName(t) == DateStr(t) \o <<"_">> \o IntToStr(t % 24) \o <<"-", "0", "0", ".md">>

\* the argument of generate_full made of the dict collect_all_unread returned
AsMessagesByChat(d) ==
    [k \in 1..Len(d) |->
        [key |-> d[k].key,
         value |-> [chat_config |-> config[d[k].value.chat],
                    messages |-> d[k].value.messages]]]

RECURSIVE TotalMessages(_)
\* _cmd_summary, line 114
TotalMessages(d) ==
    IF d = <<>> THEN 0 ELSE Len(Head(d).value.messages) + TotalMessages(Tail(d))

Frame(update_id, cmd, fpc) ==
    [update_id |-> update_id, cmd |-> cmd, pc |-> fpc, status_msg_id |-> 0,
     chat |-> 0, period |-> <<>>, i |-> 0, messages |-> <<>>,
     summary |-> <<>>, text |-> <<>>]

\* _cmd_chat up to its first request, lines 132-158
ChatFrame_unknown_fetches(update_id, text) ==
    LET parts == SplitWs(text)
        name == parts[2]
        chat == get_chat(config, name)
    IN  IF Len(parts) < 2
        THEN [Frame(update_id, "chat", "send_reply") EXCEPT !.text = <<"Usage: /chat [name] [period]">>]
        ELSE [Frame(update_id, "chat", "send_placeholder") EXCEPT
                 !.chat = IF chat = 0 THEN 1 ELSE chat,
                 !.period = IF Len(parts) > 2 THEN parts[3] ELSE <<"1", "d">>]

ChatFrame(update_id, text) ==
    LET parts == SplitWs(text)
        name == parts[2]
        chat == get_chat(config, name)
        names == get_chat_names(config)
    IN  IF Len(parts) < 2
        THEN [Frame(update_id, "chat", "send_reply") EXCEPT !.text = <<"Usage: /chat [name] [period]">>]
        ELSE IF chat = 0
        THEN [Frame(update_id, "chat", "send_reply") EXCEPT
                 !.text = <<"Chat '">> \o name
                              \o <<"' not found.", "\n", "\n", "Available chats:", "\n">>
                              \o Join([i \in 1..Len(names) |-> <<"  + ">> \o names[i]], "\n")]
        ELSE [Frame(update_id, "chat", "send_placeholder") EXCEPT
                 !.chat = chat,
                 !.period = IF Len(parts) > 2 THEN parts[3] ELSE <<"1", "d">>]

\* the frame of the handler an update is routed to
FirstFrame(u) ==
    LET cmd == Route(u.text)
    IN  IF cmd = "summary" THEN Frame(u.update_id, cmd, "send_placeholder")
        ELSE IF cmd = "chat" THEN ChatFrame(u.update_id, u.text)
        ELSE IF cmd = "chats"
        THEN [Frame(u.update_id, cmd, "send_reply") EXCEPT !.text = <<"Monitored chats">>]
        ELSE [Frame(u.update_id, cmd, "send_reply") EXCEPT !.text = <<"Commands">>]

\* getUpdates: the updates from the offset on; those before it are confirmed
GetUpdates_ignores_offset(offset) == updates

GetUpdates(offset) == SelectSeq(updates, LAMBDA u : u.update_id >= offset)

\* _poll_updates, line 78, and start, line 46: each handler is awaited
AwaitHandler_detached == "dispatch"

AwaitHandler == "handling"

(***************************************************************************)
(* start_assistant (src/assistant/__init__.py) and AssistantConfig.load.   *)
(* A YAML chat entry is a mapping that has some of the keys; `user` tells  *)
(* whether the document has user.name.                                     *)
(***************************************************************************)
YamlFiles ==
    {[user |-> TRUE,
      chats |-> <<[display_name |-> <<"W", "o", "r", "k">>, chat_id |-> 7,
                   priority |-> "high", max_messages |-> CfgMaxMessages],
                  [display_name |-> <<"N", "e", "w", "s">>, identifier |-> <<"@", "n">>,
                   priority |-> "low", max_messages |-> 1],
                  [display_name |-> <<"F", "a", "m">>, max_messages |-> CfgMaxMessages]>>],
     [user |-> TRUE, chats |-> <<>>],
     [user |-> FALSE, chats |-> <<>>]}

\* AssistantConfig.load: a missing user.name or display_name is a KeyError;
\* the other keys have defaults
load(data) ==
    IF ~data.user \/ \E i \in 1..Len(data.chats) : "display_name" \notin DOMAIN data.chats[i]
    THEN [raised |-> TRUE, chats |-> <<>>]
    ELSE [raised |-> FALSE,
          chats |-> [i \in 1..Len(data.chats) |->
                        LET c == data.chats[i]
                        IN  ChatConfig(c.display_name, Get(c, "identifier", <<>>),
                                       Get(c, "chat_id", 0), Get(c, "priority", "medium"),
                                       Get(c, "max_messages", 30))]]

\* what start_assistant is called with: the token and chat id of the host,
\* whether the configuration file exists, and its content
StartInputs ==
    {[bot_token |-> TRUE, path_exists |-> TRUE, data |-> d] : d \in YamlFiles}
        \cup {[bot_token |-> t, path_exists |-> e, data |-> d] :
                  t \in BOOLEAN, e \in BOOLEAN,
                  d \in {y \in YamlFiles : y.chats # <<>>}}

\* start_assistant: the chats of the configuration the bot is built with,
\* <<>> when it returns None
start_assistant(i) ==
    IF ~i.bot_token THEN <<>>
    ELSE IF ~i.path_exists THEN <<>>
    ELSE IF load(i.data).raised THEN <<>>
    ELSE load(i.data).chats

InitBot ==
    /\ config \in {start_assistant(i) : i \in StartInputs}
    /\ state_file = [exists |-> FALSE, last_ids |-> EmptyMap]
    /\ last_ids = _load_state(state_file)
    /\ chat_msgs \in BotPlatforms
    /\ now = TickHours
    /\ pc = "idle"
    /\ collect_i = 0
    /\ result = <<>>
    /\ outcomes = <<>>
    /\ op = NoOp
    /\ ret = <<>>
    /\ period = <<>>
    /\ parsed = NotCalled
    /\ SumIdle
    /\ BotNew

\* the user, or somebody else, sends a message to the bot; it is seen by the
\* poll that is waiting
NewUpdate ==
    /\ loop_pc = "polling"
    /\ update_count < MaxUpdates
    /\ \E u \in NewUpdates :
           updates' = Append(updates, [update_id |-> update_count + 1,
                                       chat |-> u.chat, text |-> u.text])
    /\ update_count' = update_count + 1
    /\ UNCHANGED <<collvars, sumvars, _last_update_id, _running, loop_pc, poll_batch,
                   handlers, api_log, effects, storage>>

\* start_assistant returned None (lines 51-69): no bot, no polling
Disabled ==
    /\ loop_pc = "new"
    /\ config = <<>>
    /\ loop_pc' = "disabled"
    /\ UNCHANGED <<collvars, sumvars, updates, update_count, _last_update_id, _running,
                   poll_batch, handlers, api_log, effects, storage>>

\* start_assistant creates the task of AssistantBot.start (line 86), which
\* runs lines 38-41
Start ==
    /\ loop_pc = "new"
    /\ config # <<>>
    /\ _running' = TRUE
    /\ loop_pc' = "loop"
    /\ UNCHANGED <<collvars, sumvars, updates, update_count, _last_update_id, poll_batch,
                   handlers, api_log, effects, storage>>

\* AssistantBot.stop, called while the loop waits for a poll that has nothing
\* to deliver
Stop ==
    /\ loop_pc = "polling"
    /\ GetUpdates(_last_update_id + 1) = <<>>
    /\ _running
    /\ _running' = FALSE
    /\ UNCHANGED <<collvars, sumvars, updates, update_count, _last_update_id, loop_pc,
                   poll_batch, handlers, api_log, effects, storage>>

\* the task of start is cancelled while it waits for the poll or sleeps:
\* CancelledError is no Exception; it ends the loop (line 48) or the task
Cancel ==
    /\ loop_pc \in {"polling", "sleep_status", "sleep_error"}
    /\ loop_pc' = "cancelled"
    /\ UNCHANGED <<collvars, sumvars, updates, update_count, _last_update_id, _running,
                   poll_batch, handlers, api_log, effects, storage>>

\* `while self._running`, line 45, and the request of _poll_updates, lines 60-68
LoopTop ==
    /\ loop_pc = "loop"
    /\ loop_pc' = IF _running THEN "polling" ELSE "stopped"
    /\ UNCHANGED <<collvars, sumvars, updates, update_count, _last_update_id, _running,
                   poll_batch, handlers, api_log, effects, storage>>

\* the long poll ends: with the updates, with another status, or with a
\* transport error; lines 68-74
PollResponse ==
    /\ loop_pc = "polling"
    /\ \E outcome \in {"ok", "status", "error"} :
           /\ loop_pc' = IF outcome = "ok" THEN "dispatch"
                         ELSE IF outcome = "status" THEN "sleep_status" ELSE "sleep_error"
           /\ poll_batch' = IF outcome = "ok" THEN GetUpdates(_last_update_id + 1) ELSE <<>>
           /\ updates' = IF outcome = "ok" THEN GetUpdates(_last_update_id + 1) ELSE updates
    /\ UNCHANGED <<collvars, sumvars, update_count, _last_update_id, _running,
                   handlers, api_log, effects, storage>>

\* asyncio.sleep(5) is over: line 71 and the return of line 72, or line 52
SleepDone_exits ==
    /\ loop_pc \in {"sleep_status", "sleep_error"}
    /\ loop_pc' = "stopped"
    /\ UNCHANGED <<collvars, sumvars, updates, update_count, _last_update_id, _running,
                   poll_batch, handlers, api_log, effects, storage>>

SleepDone ==
    /\ loop_pc \in {"sleep_status", "sleep_error"}
    /\ loop_pc' = "loop"
    /\ UNCHANGED <<collvars, sumvars, updates, update_count, _last_update_id, _running,
                   poll_batch, handlers, api_log, effects, storage>>

\* the for loop of _poll_updates is over: line 76
PollReturn ==
    /\ loop_pc = "dispatch"
    /\ poll_batch = <<>>
    /\ loop_pc' = "loop"
    /\ UNCHANGED <<collvars, sumvars, updates, update_count, _last_update_id, _running,
                   poll_batch, handlers, api_log, effects, storage>>

\* lines 77-100 for an update that is not acted upon: from another chat, or
\* with a text that is no command
IgnoreUpdate ==
    /\ loop_pc = "dispatch"
    /\ poll_batch # <<>>
    /\ LET u == Head(poll_batch)
       IN  /\ ~Authorized(u) \/ Route(u.text) = "none"
           /\ _last_update_id' = u.update_id
    /\ poll_batch' = Tail(poll_batch)
    /\ UNCHANGED <<collvars, sumvars, updates, update_count, _running, loop_pc,
                   handlers, api_log, effects, storage>>

\* lines 77-100 for /summary, /chat, /chats and /help: the handler is called
\* and runs up to its first request
StartHandler ==
    /\ loop_pc = "dispatch"
    /\ poll_batch # <<>>
    /\ LET u == Head(poll_batch)
       IN  /\ Authorized(u)
           /\ Route(u.text) \in {"summary", "chat", "chats", "help"}
           /\ _last_update_id' = u.update_id
           /\ handlers' = handlers \cup {FirstFrame(u)}
    /\ poll_batch' = Tail(poll_batch)
    /\ loop_pc' = AwaitHandler
    /\ api_log' = <<>>
    /\ effects' = NoEffects
    /\ UNCHANGED <<collvars, sumvars, updates, update_count, _running, storage>>

\* lines 77-100 and 211-217 for /reset: reset_state runs before the first
\* request; when the state file cannot be written it raises with the
\* checkpoints already changed in memory, and the exception reaches start
\* (lines 49-52), leaving the rest of the batch undispatched
ResetUpdate ==
    /\ loop_pc = "dispatch"
    /\ poll_batch # <<>>
    /\ LET u == Head(poll_batch)
           chat_name == ResetArg(u.text)
       IN  /\ Authorized(u)
           /\ Route(u.text) = "reset"
           /\ _last_update_id' = u.update_id
           /\ last_ids' = reset_state(chat_name)
           /\ \E written \in BOOLEAN :
                  IF written
                  THEN /\ state_file' = _save_state(last_ids')
                       /\ handlers' = handlers \cup
                              {[Frame(u.update_id, "reset", "send_reply") EXCEPT
                                   !.text = IF chat_name # <<>>
                                            THEN <<"State reset for: ">> \o chat_name
                                            ELSE <<"State reset for all chats">>]}
                       /\ loop_pc' = AwaitHandler
                       /\ poll_batch' = Tail(poll_batch)
                       /\ effects' = NoEffects
                  ELSE /\ state_file' = state_file
                       /\ handlers' = handlers
                       /\ loop_pc' = "sleep_error"
                       /\ poll_batch' = <<>>
                       /\ effects' = [NoEffects EXCEPT !.raised = TRUE, !.escaped = TRUE,
                                                        !.abandoned = Len(Tail(poll_batch))]
    /\ api_log' = <<>>
    /\ UNCHANGED <<sumvars, config, chat_msgs, now, pc, collect_i, result, outcomes, op,
                   ret, period, parsed, updates, update_count, _running, storage>>

\* the handler h returns to _poll_updates
Finish(h) ==
    /\ handlers' = handlers \ {h}
    /\ loop_pc' = IF loop_pc = "handling" THEN "dispatch" ELSE loop_pc

\* the handler h goes on to wait for its next call
Goto(h, f) == /\ handlers' = (handlers \ {h}) \cup {f}
              /\ UNCHANGED loop_pc

\* the one request of /chats, /help, /reset and of the refusals of /chat
SendReply ==
    /\ \E h \in handlers :
           /\ h.pc = "send_reply"
           /\ api_log' = Append(api_log, _send(h.text, "reply", 0))
           /\ Finish(h)
    /\ UNCHANGED <<collvars, sumvars, updates, update_count, _last_update_id, _running,
                   poll_batch, effects, storage>>

\* _cmd_summary line 105, _cmd_chat lines 155-158: the placeholder is sent and
\* its message id returned, or None
SendPlaceholder ==
    /\ \E h \in handlers, sent \in BOOLEAN :
           LET id == IF sent THEN NewMessageId(h.update_id) ELSE 0
           IN  /\ h.pc = "send_placeholder"
               /\ api_log' = Append(api_log, _send(<<"Collecting messages...">>,
                                                    "placeholder", id))
               /\ Goto(h, [h EXCEPT !.status_msg_id = id,
                                    !.pc = IF h.cmd = "summary" THEN "collect" ELSE "fetch",
                                    !.i = 1])
    /\ UNCHANGED <<collvars, sumvars, updates, update_count, _last_update_id, _running,
                   poll_batch, effects, storage>>

\* _cmd_summary line 108: collect_all_unread, one get_unread per step, with
\* the platform working or its resolution request failing.  When
\* the state file cannot be written, _save_state raises inside the try block
\* of get_unread (line 136), after the checkpoint was set in memory; the
\* except clause of line 138 logs it and the batch is returned.
SummaryCollect ==
    /\ \E h \in handlers, fault \in {NoFault, ResolveFault}, written \in BOOLEAN :
           LET c == config[h.i]
               g == get_unread(c, PlatformOk(fault), FailAt(fault))
               d == CollectResult(h.messages, h.i, g.messages)
           IN  /\ h.pc = "collect"
               /\ FaultPossible(c, fault, g.outcome = "resolve_failed", g.available)
               /\ ~g.saved => written
               /\ last_ids' = g.last_ids
               /\ state_file' = IF g.saved /\ written THEN _save_state(g.last_ids)
                                 ELSE state_file
               /\ Goto(h, [h EXCEPT !.messages = d,
                                    !.i = h.i + 1,
                                    !.pc = IF h.i < Len(config) THEN "collect"
                                           ELSE IF d = <<>> THEN "edit_empty"
                                           ELSE "edit_progress"])
    /\ effects' = [effects EXCEPT !.fetches = @ + 1]
    /\ UNCHANGED <<sumvars, config, chat_msgs, now, pc, collect_i, result, outcomes, op,
                   ret, period, parsed, updates, update_count, _last_update_id, _running,
                   poll_batch, api_log, storage>>

\* _cmd_chat lines 160-168: get_for_period; what it raises is caught at
\* line 177
ChatFetch ==
    /\ \E h \in handlers, fault \in {NoFault, ResolveFault} :
           LET c == config[h.chat]
               g == get_for_period(c, h.period, PlatformOk(fault), FailAt(fault))
           IN  /\ h.pc = "fetch"
               /\ FaultPossible(c, fault, g.outcome # "ok" /\ g.outcome # "fetch_failed",
                                g.available)
               /\ Goto(h, [h EXCEPT !.messages = g.messages,
                                    !.text = IF g.outcome = "raised"
                                             THEN <<"Error: ", "OverflowError">> ELSE <<>>,
                                    !.pc = IF g.outcome = "raised" THEN "edit_error"
                                           ELSE IF g.messages = <<>> THEN "edit_empty"
                                           ELSE "edit_progress"])
               /\ effects' = [effects EXCEPT !.fetches = @ + 1,
                                             !.raised = g.outcome = "raised"]
    /\ UNCHANGED <<collvars, sumvars, updates, update_count, _last_update_id, _running,
                   poll_batch, api_log, storage>>

EditText_drops_error(h) ==
    IF h.pc = "edit_empty"
    THEN IF h.cmd = "summary" THEN <<"No new messages">>
         ELSE <<"No messages in ">> \o config[h.chat].display_name \o <<" for ">> \o h.period
    ELSE IF h.pc = "edit_progress"
    THEN <<"Generating summary (">>
             \o IntToStr(IF h.cmd = "summary" THEN TotalMessages(h.messages)
                         ELSE Len(h.messages))
             \o <<" msgs)...">>
    ELSE IF h.pc = "edit_final"
    THEN IF h.cmd = "summary" THEN h.summary.aggregate
         ELSE <<"<b>">> \o h.summary.chat_name \o <<"</b> (">>
                  \o IntToStr(h.summary.message_count) \o <<" msgs)", "\n", "\n">>
                  \o h.summary.summary
    ELSE <<"Generating summary (", "0", " msgs)...">>

\* the text of the edit the handler h is about to request
EditText(h) ==
    IF h.pc = "edit_empty"
    THEN IF h.cmd = "summary" THEN <<"No new messages">>
         ELSE <<"No messages in ">> \o config[h.chat].display_name \o <<" for ">> \o h.period
    ELSE IF h.pc = "edit_progress"
    THEN <<"Generating summary (">>
             \o IntToStr(IF h.cmd = "summary" THEN TotalMessages(h.messages)
                         ELSE Len(h.messages))
             \o <<" msgs)...">>
    ELSE IF h.pc = "edit_final"
    THEN IF h.cmd = "summary" THEN h.summary.aggregate
         ELSE <<"<b>">> \o h.summary.chat_name \o <<"</b> (">>
                  \o IntToStr(h.summary.message_count) \o <<" msgs)", "\n", "\n">>
                  \o h.summary.summary
    ELSE h.text

\* the edits of the status message: _cmd_summary lines 111, 115, 120, 128 and
\* _cmd_chat lines 164, 167, 175, 179
EditStatus ==
    /\ \E h \in handlers :
           /\ h.pc \in {"edit_empty", "edit_progress", "edit_final", "edit_error"}
           /\ api_log' = Append(api_log,
                                _edit(h.status_msg_id, EditText(h), h.pc))
           /\ IF h.pc = "edit_progress"
              THEN Goto(h, [h EXCEPT !.pc = IF h.cmd = "summary" THEN "generate"
                                            ELSE "summarize"])
              ELSE IF h.pc = "edit_final" /\ h.cmd = "summary"
              THEN Goto(h, [h EXCEPT !.pc = "save"])
              ELSE Finish(h)
    /\ UNCHANGED <<collvars, sumvars, updates, update_count, _last_update_id, _running,
                   poll_batch, effects, storage>>

\* _cmd_summary line 117: generate_full
SummaryGenerate ==
    /\ \E h \in handlers :
           LET d == AsMessagesByChat(h.messages)
           IN  /\ h.pc = "generate"
               /\ \E o \in {Returned(<<"o", "k">>)} :
                      Goto(h, [h EXCEPT
                                  !.summary = generate_full(d, [k \in 1..Len(d) |-> o], now),
                                  !.pc = "edit_final"])
               /\ effects' = [effects EXCEPT
                                 !.completions = @ + Cardinality(
                                     {k \in 1..Len(d) : NeedsCompletion(d[k].value.messages)}),
                                 !.prompts = @ \o
                                     [k \in 1..Len(d) |->
                                         [messages |-> d[k].value.messages,
                                          prompt |-> _build_chat_prompt(
                                              d[k].value.chat_config,
                                              _format_messages(d[k].value.messages), now)]]]
    /\ UNCHANGED <<collvars, sumvars, updates, update_count, _last_update_id, _running,
                   poll_batch, api_log, storage>>

\* _cmd_chat line 168: summarize_chat
ChatSummarize ==
    /\ \E h \in handlers, completion \in {Returned(<<"o", "k">>)} :
           /\ h.pc = "summarize"
           /\ Goto(h, [h EXCEPT !.summary = summarize_chat(config[h.chat], h.messages,
                                                           completion),
                                !.pc = "edit_final"])
           /\ effects' = [effects EXCEPT
                             !.completions = @ + IF NeedsCompletion(h.messages) THEN 1 ELSE 0,
                             !.prompts = @ \o
                                 <<[messages |-> h.messages,
                                    prompt |-> _build_chat_prompt(
                                        config[h.chat], _format_messages(h.messages), now)]>>]
    /\ UNCHANGED <<collvars, sumvars, updates, update_count, _last_update_id, _running,
                   poll_batch, api_log, storage>>

\* _cmd_summary line 123: SummaryStorage.save writes the file, or fails to;
\* the exception is caught at line 126
SummarySave ==
    /\ \E h \in handlers, written \in BOOLEAN :
           /\ h.pc = "save"
           /\ IF written
              THEN /\ storage' = Put(storage, FileName(h.summary.generated_at), h.summary)
                   /\ effects' = [effects EXCEPT !.saves = @ + 1]
                   /\ Finish(h)
              ELSE /\ UNCHANGED <<storage, effects>>
                   /\ Goto(h, [h EXCEPT !.text = <<"Error: ", "OSError">>,
                                        !.pc = "edit_error"])
    /\ UNCHANGED <<collvars, sumvars, updates, update_count, _last_update_id, _running,
                   poll_batch, api_log>>

NextBot ==
    \/ NewUpdate
    \/ Disabled
    \/ Start
    \/ Stop
    \/ Cancel
    \/ LoopTop
    \/ PollResponse
    \/ SleepDone
    \/ PollReturn
    \/ IgnoreUpdate
    \/ StartHandler
    \/ ResetUpdate
    \/ SendReply
    \/ SendPlaceholder
    \/ SummaryCollect
    \/ ChatFetch
    \/ EditStatus
    \/ SummaryGenerate
    \/ ChatSummarize
    \/ SummarySave

SpecBot == InitBot /\ [][NextBot]_vars

\* the event loop runs the task of start whenever it can go on: a sleep of
\* five seconds ends, and the loop goes on to its test and its request
SpecBotFair == SpecBot /\ WF_vars(SleepDone) /\ WF_vars(LoopTop)

(***************************************************************************)
(* The dispatcher with one update waiting at the server, of any text, from *)
(* the configured chat or from another one, and no message in the chats.   *)
(***************************************************************************)
InitRoute ==
    /\ config \in ConfigChoices
    /\ state_file = [exists |-> FALSE, last_ids |-> EmptyMap]
    /\ last_ids = _load_state(state_file)
    /\ chat_msgs = [e \in Entities |-> <<>>]
    /\ now = 0
    /\ pc = "idle"
    /\ collect_i = 0
    /\ result = <<>>
    /\ outcomes = <<>>
    /\ op = NoOp
    /\ ret = <<>>
    /\ period = <<>>
    /\ parsed = NotCalled
    /\ SumIdle
    /\ \E c \in {42, 77},
          t \in {<<"/", "s", "u", "m", "m", "a", "r", "y">>,
                 <<"/", "s", "u", "m", "m", "a", "r", "y", "x">>,
                 <<"/", "S", "u", "m", "m", "a", "r", "y">>,
                 <<"/", "c", "h", "a", "t">>,
                 <<"/", "c", "h", "a", "t", " ">>,
                 <<"/", "c", "h", "a", "t", " ", "w", "o", "r", "k">>,
                 <<"/", "c", "h", "a", "t", " ", "s">>,
                 <<"/", "c", "h", "a", "t", "x">>,
                 <<"/", "c", "h", "a", "t", "s">>,
                 <<"/", "c", "h", "a", "t", "s", " ", "w", "o", "r", "k">>,
                 <<"/", "c", "h", "a", "t", "s", "x">>,
                 <<"/", "C", "H", "A", "T", "S">>,
                 <<"/", "h", "e", "l", "p">>,
                 <<"/", "h", "e", "l", "p", "m", "e">>,
                 <<"/", "h", "e", "l">>,
                 <<" ", "/", "h", "e", "l", "p">>,
                 <<"/", "r", "e", "s", "e", "t">>,
                 <<"/", "r", "e", "s", "e", "t", " ", "w", "o", "r", "k">>,
                 <<"/", "R", "e", "s", "e", "t">>,
                 <<"h", "i">>,
                 <<"s", "u", "m", "m", "a", "r", "y">>,
                 <<>>} :
          updates = <<[update_id |-> 1, chat |-> c, text |-> t]>>
    /\ update_count = 1
    /\ _last_update_id = 0
    /\ _running = FALSE
    /\ loop_pc = "new"
    /\ poll_batch = <<>>
    /\ handlers = {}
    /\ api_log = <<>>
    /\ effects = NoEffects
    /\ storage = EmptyMap

NextRoute ==
    \/ Start
    \/ LoopTop
    \/ PollResponse
    \/ SleepDone
    \/ PollReturn
    \/ IgnoreUpdate
    \/ StartHandler
    \/ ResetUpdate
    \/ SendReply
    \/ SendPlaceholder
    \/ SummaryCollect
    \/ ChatFetch
    \/ EditStatus

SpecRoute == InitRoute /\ [][NextRoute]_vars

(***************************************************************************)
(* Which call a step makes.                                                *)
(***************************************************************************)
GetUnreadStep == pc = "collect" /\ collect_i' = collect_i + 1 /\ op'.name = "get_unread"

GetForPeriodStep == pc = "idle" /\ pc' = "done" /\ op'.name = "get_for_period"

ResetStep == pc = "idle" /\ pc' = "done" /\ op'.name = "reset_state"

\* the messages of chat c that are above its checkpoint and inside the
\* lookback window, when the chat resolves
NewMessagesOf(c) ==
    LET r == _resolve_chat(c, TRUE)
    IN  IF r.raised THEN {}
        ELSE {m \in {chat_msgs[r.entity][n] : n \in 1..Len(chat_msgs[r.entity])} :
                  /\ m.id > Get(last_ids, ChatKey(c), 0)
                  /\ m.date > now - DEFAULT_FETCH_DAYS * 24}

WorkKey == <<"7">>

NewsKey == <<"@", "n">>

(***************************************************************************)
(* C1: as long as no reset_state is called, every stored checkpoint stays  *)
(* stored and never decreases, whatever the get_unread calls do (return    *)
(* messages, return nothing, fail in resolution or in the fetch).          *)
(***************************************************************************)
C1_CheckpointNonDecreasing ==
    [][~ResetStep =>
          \A k \in DOMAIN last_ids : k \in DOMAIN last_ids' /\ last_ids'[k] >= last_ids[k]]_vars

\* a get_unread has failed in the fetch for a chat that has a checkpoint
C1_Witness ==
    /\ op.name = "get_unread"
    /\ op.outcome = "fetch_failed"
    /\ op.last_id > 0
    /\ op.key \in DOMAIN last_ids
    /\ last_ids[op.key] = op.last_id

(***************************************************************************)
(* C2: when the message iteration of get_unread raises, at any point, the  *)
(* checkpoint of the chat is as before the call and the returned list is   *)
(* empty.                                                                  *)
(***************************************************************************)
C2_FetchFailureReturnsEmpty ==
    (op.name = "get_unread" /\ op.outcome = "fetch_failed") =>
        (ret = <<>> /\ Get(last_ids, op.key, 0) = op.last_id)

(***************************************************************************)
(* C3: when get_unread completes without exception and returns a non-empty *)
(* list for a chat with checkpoint c, every returned id is above c, the    *)
(* list is in increasing id order, and the checkpoint is now the greatest  *)
(* returned id.                                                            *)
(***************************************************************************)
C3_SuccessAdvancesToMax ==
    (op.name = "get_unread" /\ op.outcome = "ok" /\ ret # <<>>) =>
        /\ \A n \in 1..Len(ret) : ret[n].id > op.last_id
        /\ \A n \in 1..(Len(ret) - 1) : ret[n].id < ret[n + 1].id
        /\ op.key \in DOMAIN last_ids
        /\ \A n \in 1..Len(ret) : ret[n].id <= last_ids[op.key]
        /\ \E n \in 1..Len(ret) : ret[n].id = last_ids[op.key]

\* two new messages returned in one call, the checkpoint on the second
C3_Witness ==
    /\ op.name = "get_unread"
    /\ op.outcome = "ok"
    /\ Len(ret) >= 2
    /\ ret[1].id < ret[2].id
    /\ last_ids[op.key] = ret[Len(ret)].id

(***************************************************************************)
(* C4: a get_unread for a chat with no new messages returns the empty list *)
(* and leaves the checkpoint map unchanged in memory and in the file; so   *)
(* does every get_unread that returns the empty list, hence any number of  *)
(* repetitions.                                                            *)
(***************************************************************************)
C4_EmptyFetchChangesNothing ==
    [][GetUnreadStep =>
          /\ NewMessagesOf(config[collect_i]) = {} => ret' = <<>>
          /\ ret' = <<>> => (last_ids' = last_ids /\ state_file' = state_file)]_vars

\* a successful get_unread has returned nothing for a chat that has a checkpoint
C4_Witness ==
    /\ op.name = "get_unread"
    /\ op.outcome = "ok"
    /\ ret = <<>>
    /\ op.last_id > 0
    /\ state_file.exists
    /\ state_file.last_ids[op.key] = op.last_id

(***************************************************************************)
(* C5: get_for_period, for any chat, period token and outcome, leaves the  *)
(* checkpoint map unchanged in memory and in the file, so the messages a   *)
(* later collect would fetch for any chat are the same as before it.       *)
(***************************************************************************)
C5_PeriodFetchKeepsCheckpoints ==
    [][GetForPeriodStep =>
          /\ last_ids' = last_ids
          /\ state_file' = state_file
          /\ \A n \in 1..Len(config) : NewMessagesOf(config[n])' = NewMessagesOf(config[n])]_vars

\* get_for_period has returned messages of a chat that has a checkpoint
C5_Witness ==
    /\ op.name = "get_for_period"
    /\ op.outcome = "ok"
    /\ ret # <<>>
    /\ op.key \in DOMAIN last_ids

(***************************************************************************)
(* C6: collect_all_unread calls get_unread once for every configured chat, *)
(* in configuration order, whatever the earlier calls did; the entries of  *)
(* the result hold non-empty lists, and a chat whose call returned nothing *)
(* has no entry.                                                           *)
(***************************************************************************)
C6_CollectVisitsEveryChat ==
    /\ pc = "collect" =>
           /\ collect_i = Len(outcomes) + 1
           /\ collect_i <= Len(config)
    /\ (pc = "done" /\ outcomes # <<>>) => Len(outcomes) = Len(config)
    /\ \A n \in 1..Len(outcomes) : outcomes[n].chat = n
    /\ \A n \in 1..Len(result) :
           /\ result[n].value.messages # <<>>
           /\ outcomes[result[n].value.chat].messages = result[n].value.messages
    /\ \A n \in 1..Len(outcomes) :
           outcomes[n].messages = <<>> =>
               \A e \in 1..Len(result) : result[e].value.chat # n

\* a collect has returned in which the first chat failed and the second
\* chat was fetched and is in the result
C6_Witness ==
    /\ pc = "done"
    /\ Len(outcomes) = Len(config)
    /\ outcomes[1].outcome = "fetch_failed"
    /\ outcomes[1].messages = <<>>
    /\ outcomes[2].outcome = "ok"
    /\ outcomes[3].outcome = "resolve_failed"
    /\ Len(result) = 1
    /\ result[1].value.chat = 2

(***************************************************************************)
(* C7: reset_state with the name of a configured chat, in any case,        *)
(* removes the checkpoint of that chat and leaves every other checkpoint   *)
(* as it was; reset_state without a name removes all checkpoints; either   *)
(* way the file holds the new map when the call returns.                   *)
(***************************************************************************)
NamedChats(name) ==
    {n \in 1..Len(config) : LowerStr(config[n].display_name) = LowerStr(name)}

C7_ResetRemovesExactlyThatChat ==
    [][ResetStep =>
          /\ state_file' = [exists |-> TRUE, last_ids |-> last_ids']
          /\ op'.arg = <<>> => DOMAIN last_ids' = {}
          /\ (op'.arg # <<>> /\ NamedChats(op'.arg) # {}) =>
                 LET n == CHOOSE x \in NamedChats(op'.arg) : \A y \in NamedChats(op'.arg) : x <= y
                     key == ChatKey(config[n])
                 IN  /\ DOMAIN last_ids' = (DOMAIN last_ids) \ {key}
                     /\ \A k \in DOMAIN last_ids' : last_ids'[k] = last_ids[k]]_vars

\* reset_state("work") has removed the checkpoint of Work and kept that of News
C7_Witness ==
    /\ op.name = "reset_state"
    /\ op.arg = <<"w", "o", "r", "k">>
    /\ op.key = WorkKey
    /\ op.last_id > 0
    /\ WorkKey \notin DOMAIN last_ids
    /\ NewsKey \in DOMAIN last_ids
    /\ state_file.last_ids = last_ids

(***************************************************************************)
(* C8: reset_state with a name that matches no configured chat returns     *)
(* normally and leaves every checkpoint with its value.                    *)
(***************************************************************************)
C8_ResetUnknownIsNoOp ==
    [][(ResetStep /\ op'.arg # <<>> /\ NamedChats(op'.arg) = {}) =>
          (op'.outcome = "ok" /\ last_ids' = last_ids)]_vars

\* reset_state("nope") has returned with checkpoints in place
C8_Witness ==
    /\ op.name = "reset_state"
    /\ op.arg = <<"n", "o", "p", "e">>
    /\ op.chat = 0
    /\ DOMAIN last_ids = {WorkKey, NewsKey}

(***************************************************************************)
(* C9: _parse_period is total: whatever the string, it returns a duration  *)
(* and raises nothing.                                                     *)
(***************************************************************************)
C9_ParsePeriodTotal == op.name = "_parse_period" => ~parsed.raised

(***************************************************************************)
(* C10: _parse_period gives n hours for '<n>h', n days for '<n>d', n weeks *)
(* for '<n>w', the unit in either case; n days for any other last          *)
(* character; one day for the empty token and for a number part that int() *)
(* rejects.  (Stated for the tokens whose duration a timedelta can hold.)  *)
(***************************************************************************)
Representable(days) == days <= TimedeltaMaxDays /\ days >= 0 - TimedeltaMaxDays

StartsWork == api_log # <<>> /\ api_log[1].role = "placeholder"

Last(seq) == seq[Len(seq)]

(***************************************************************************)
(* C11 as stated: a /summary or /chat invocation that starts work sends    *)
(* one message, the placeholder, and every later text is an edit of the    *)
(* message the placeholder send returned, whatever that send returned.     *)
(***************************************************************************)
C11_OnlyPlaceholderIsSent ==
    StartsWork =>
        /\ api_log[1].method = "sendMessage"
        /\ \A j \in 2..Len(api_log) :
               /\ api_log[j].method = "editMessageText"
               /\ api_log[j].message_id = api_log[1].returned

(***************************************************************************)
(* C11, amended: when the placeholder send returned a message id, every    *)
(* later text of the invocation is an edit of that message and no second   *)
(* message is sent; when it returned none, every later text is sent as a   *)
(* new message.                                                            *)
(***************************************************************************)
C11_EditsWhenPlaceholderHasId ==
    StartsWork =>
        /\ api_log[1].method = "sendMessage"
        /\ \A j \in 2..Len(api_log) :
               IF api_log[1].returned # 0
               THEN /\ api_log[j].method = "editMessageText"
                    /\ api_log[j].message_id = api_log[1].returned
               ELSE api_log[j].method = "sendMessage"

\* a /summary whose placeholder got an id has shown progress and the aggregate
C11_Witness ==
    /\ StartsWork
    /\ api_log[1].returned # 0
    /\ Len(api_log) >= 3
    /\ Last(api_log).role = "edit_final"
    /\ Last(api_log).method = "editMessageText"

(***************************************************************************)
(* C12: when the collector or the summarizer raises while a command is     *)
(* serviced, the exception does not leave the handler, and the handler     *)
(* ends with an error line as its last text.                               *)
(***************************************************************************)
C12_ExceptionsSurfaced ==
    (effects.raised /\ loop_pc # "cancelled") =>
        /\ ~effects.escaped
        /\ handlers = {} => api_log # <<>> /\ Last(api_log).role = "edit_error"

(***************************************************************************)
(* C13: while the bot is running and not cancelled, a backoff (after an    *)
(* exception that reached start, or after a poll answered with an error    *)
(* status) is followed by another getUpdates poll.                         *)
(***************************************************************************)
C13_BackoffThenPoll ==
    (loop_pc \in {"sleep_status", "sleep_error"} /\ _running)
        ~> (loop_pc = "polling" \/ loop_pc = "cancelled" \/ ~_running)

\* the poll that follows a /reset that raised
C13_Witness == loop_pc = "polling" /\ effects.escaped /\ _running

(***************************************************************************)
(* C14: the step that takes an update of another chat than the configured  *)
(* one changes no checkpoint, in memory or on file, stores nothing, makes  *)
(* no request, no fetch and no completion call, and starts no handler.     *)
(***************************************************************************)
ForeignAtHead ==
    /\ loop_pc = "dispatch"
    /\ poll_batch # <<>>
    /\ from_chat_id(Head(poll_batch)) # BotChatId

C14_ForeignUpdateIgnored ==
    [][ForeignAtHead =>
           /\ last_ids' = last_ids
           /\ state_file' = state_file
           /\ storage' = storage
           /\ api_log' = api_log
           /\ effects' = effects
           /\ handlers' = handlers]_vars

\* a /reset from another chat has been taken while a checkpoint is stored
C14_Witness ==
    /\ loop_pc = "dispatch"
    /\ last_ids # EmptyMap
    /\ \E i \in 1..Len(updates) :
           /\ updates[i].update_id = _last_update_id
           /\ updates[i].chat = 77
           /\ updates[i].text = ResetWorkText

(***************************************************************************)
(* C15: at most one handler is in progress; while one is, the loop waits   *)
(* for it and takes no other update; so at most one handler is inside a    *)
(* collector call.                                                         *)
(***************************************************************************)
C15_OneHandlerAtATime ==
    /\ Cardinality(handlers) <= 1
    /\ handlers # {} => loop_pc = "handling"
    /\ Cardinality({h \in handlers : h.pc \in {"collect", "fetch"}}) <= 1

\* a /summary is in the middle of its fetches while the next command waits
C15_Witness ==
    /\ \E h \in handlers : h.pc = "collect" /\ h.i = 2
    /\ poll_batch # <<>>
    /\ Authorized(Head(poll_batch))
    /\ Route(Head(poll_batch).text) = "summary"

(***************************************************************************)
(* C16: generate_full summarizes each entry once, in iteration order; no   *)
(* two completion calls are running together; FullSummary.chats has the    *)
(* length and the order of the argument.                                   *)
(***************************************************************************)
NameOfEntry(k) == messages_by_chat[k].value.chat_config.display_name

C16_OneCompletionAtATime ==
    /\ Cardinality(in_flight) <= 1
    /\ Len(summaries) <= Len(messages_by_chat)
    /\ \A k \in 1..Len(summaries) :
           k <= Len(messages_by_chat) => summaries[k].chat_name = NameOfEntry(k)
    /\ \A j, k \in 1..Len(completions) : j < k => completions[j].entry < completions[k].entry
    /\ sum_pc = "done" =>
           /\ Len(full.chats) = Len(messages_by_chat)
           /\ \A k \in 1..Len(full.chats) : full.chats[k].chat_name = NameOfEntry(k)

\* a run over a full argument with at least two completion calls has returned
C16_Witness ==
    /\ sum_pc = "done"
    /\ Len(messages_by_chat) = MaxSumChats
    /\ Len(completions) >= 2

(***************************************************************************)
(* C17: the summary of an entry without messages has message_count 0, no   *)
(* actions and no media items, and no completion call was made for it; for *)
(* an entry with messages exactly one completion call was made.            *)
(***************************************************************************)
CallsFor(k) == {j \in 1..Len(completions) : completions[j].entry = k}

C17_EmptyBatchNoCompletion ==
    \A k \in 1..Len(summaries) :
        k <= Len(messages_by_chat) =>
            IF messages_by_chat[k].value.messages = <<>>
            THEN /\ summaries[k].message_count = 0
                 /\ summaries[k].actions = <<>>
                 /\ summaries[k].media_items = <<>>
                 /\ CallsFor(k) = {}
            ELSE Cardinality(CallsFor(k)) = 1

\* an entry without messages and one with messages have been summarized
C17_Witness ==
    /\ \E k \in 1..Len(summaries) : messages_by_chat[k].value.messages = <<>>
    /\ \E k \in 1..Len(summaries) : messages_by_chat[k].value.messages # <<>>

(***************************************************************************)
(* C18: the summary of a chat whose completion call failed has a text that *)
(* starts with the error phrase, no actions, and the message_count and     *)
(* media_items of its batch; the summary of a chat whose call returned has *)
(* that text, its actions and the count and media of its own batch,        *)
(* whatever happened to the other chats; generate_full returns them all.   *)
(***************************************************************************)
C18_FailureIsLocal ==
    /\ \A j \in 1..Len(completions) :
           LET k == completions[j].entry
               o == completions[j].outcome
               msgs == messages_by_chat[k].value.messages
           IN  (completions[j].ended /\ k <= Len(summaries)) =>
                   /\ summaries[k].message_count = Len(msgs)
                   /\ summaries[k].media_items = _format_messages(msgs).media_items
                   /\ IF o.raised
                      THEN /\ StartsWith(summaries[k].summary, ErrorPrefix)
                           /\ summaries[k].actions = <<>>
                      ELSE /\ summaries[k].summary = o.text
                           /\ summaries[k].actions = _extract_actions(o.text)
    /\ sum_pc = "done" => full.chats = summaries /\ Len(summaries) = Len(messages_by_chat)

\* a run in which one completion call failed and another returned actions
C18_Witness ==
    /\ sum_pc = "done"
    /\ \E j \in 1..Len(completions) :
           /\ completions[j].outcome.raised
           /\ full.chats[completions[j].entry].message_count = 2
           /\ full.chats[completions[j].entry].media_items # <<>>
    /\ \E j \in 1..Len(completions) :
           /\ ~completions[j].outcome.raised
           /\ full.chats[completions[j].entry].actions # <<>>

(***************************************************************************)
(* C19: in the aggregate the group headings appear in the order high,      *)
(* medium, low; each chat appears once, after the heading of its group and *)
(* before the next heading, a chat of unrecognised priority in the medium  *)
(* group; the chats of one group are in input order.                       *)
(***************************************************************************)
Pos(text, pat) ==
    {i \in 1..(Len(text) - Len(pat) + 1) : SubSeq(text, i, i + Len(pat) - 1) = pat}

ChatPat(s) == <<"<b>">> \o s.chat_name \o <<"</b> (">>

GroupPat(p) == <<Icon(p), " <b>", GroupName(p), "</b>">>

Rank(p) == IF p = "high" THEN 1 ELSE IF p = "low" THEN 3 ELSE 2

The(S) == CHOOSE x \in S : TRUE

C19_GroupsInFixedOrder ==
    sum_pc = "done" =>
        LET a == full.aggregate
            ss == full.chats
            present == {Rank(ss[k].priority) : k \in 1..Len(ss)}
            heading(r) == The(Pos(a, GroupPat(Priorities[r])))
            at(k) == The(Pos(a, ChatPat(ss[k])))
        IN  /\ \A k \in 1..Len(ss) : Cardinality(Pos(a, ChatPat(ss[k]))) = 1
            /\ \A r \in 1..3 :
                   Cardinality(Pos(a, GroupPat(Priorities[r]))) = IF r \in present THEN 1 ELSE 0
            /\ \A r, q \in present : r < q => heading(r) < heading(q)
            /\ \A k \in 1..Len(ss) :
                   /\ heading(Rank(ss[k].priority)) < at(k)
                   /\ \A q \in present : Rank(ss[k].priority) < q => at(k) < heading(q)
            /\ \A k, l \in 1..Len(ss) :
                   (k < l /\ Rank(ss[k].priority) = Rank(ss[l].priority)) => at(k) < at(l)

\* low, unrecognised and high priority chats, given in that order
C19_Witness ==
    /\ sum_pc = "done"
    /\ Len(full.chats) >= 3
    /\ full.chats[1].priority = "low"
    /\ full.chats[2].priority = "urgent"
    /\ full.chats[3].priority = "high"

(***************************************************************************)
(* C20 as stated: when no chat is in any group, the aggregate is the fixed *)
(* "nothing new" message and nothing else.                                 *)
(***************************************************************************)
C20_OnlyNothingNew ==
    (sum_pc = "done" /\ full.chats = <<>>) =>
        full.aggregate \in {NothingNew, Tail(NothingNew)}

(***************************************************************************)
(* C20, amended: when no chat is in any group, the aggregate is the        *)
(* heading with the time of the call followed by the fixed "nothing new"   *)
(* line, and nothing else; when a chat is in a group, that line is absent. *)
(***************************************************************************)
C20_HeadingThenNothingNew ==
    sum_pc = "done" =>
        IF full.chats = <<>>
        THEN full.aggregate = AggregateHeader(full.generated_at) \o <<"\n">> \o NothingNew
        ELSE Pos(full.aggregate, NothingNew) = {}

\* generate_full of an empty dict, called after the clock has advanced
C20_Witness ==
    /\ sum_pc = "done"
    /\ messages_by_chat = <<>>
    /\ full.generated_at = TickHours
    /\ Pos(full.aggregate, NothingNew) # {}

\* the messages of a batch from the oldest to the newest: the ids of a chat
\* grow with time
OldestFirst(msgs) ==
    LET all == {msgs[i] : i \in 1..Len(msgs)}
    IN  [k \in 1..Len(msgs) |->
            CHOOSE m \in all : Cardinality({x \in all : x.id < m.id}) = k - 1]

\* the body of the prompt that lists the most recent PromptLines messages of
\* a batch, oldest first
BodyOldestFirst(msgs) ==
    LET sorted == OldestFirst(msgs)
    IN  <<"Messages:", "\n">>
            \o Join(LastN([i \in 1..Len(sorted) |-> MessageLine(sorted[i])], PromptLines), "\n")
            \o <<"\n", "\n", "---">>

(***************************************************************************)
(* C21: the prompt of every completion call of /summary (batches of        *)
(* get_unread) and of /chat (a batch of get_for_period) lists the most     *)
(* recent 30 messages of the batch from the oldest to the newest, and the  *)
(* message_count of the summary is the size of the whole batch.            *)
(***************************************************************************)
C21_PromptOldestFirst ==
    /\ \A k \in 1..Len(effects.prompts) :
           Pos(effects.prompts[k].prompt, BodyOldestFirst(effects.prompts[k].messages)) # {}
    /\ \A h \in handlers :
           h.pc = "edit_final" =>
               IF h.cmd = "chat"
               THEN h.summary.message_count = Len(h.messages)
               ELSE \A k \in 1..Len(h.messages) :
                        h.summary.chats[k].message_count = Len(h.messages[k].value.messages)

\* whether a line of the answer begins, blanks aside, with a bullet
IsBulletLine(line) == Strip(line) # <<>> /\ Head(Strip(line)) \in {"-", "+", "*"}

RECURSIVE AfterBullet(_)
\* the text of a bullet line: what follows its leading bullets and blanks,
\* without the blanks at its end
AfterBullet(line) ==
    IF line # <<>> /\ Head(line) \in {"-", "+", "*", " "}
    THEN AfterBullet(Tail(line))
    ELSE RStrip(line)

\* the lines of the answer of the first (and only) completion call
AnswerLines == Split(completions[1].outcome.text, "\n")

\* the lines of the answer that count as actions, in order
ActionLines ==
    SelectSeq(AnswerLines, LAMBDA l : IsBulletLine(l) /\ Len(AfterBullet(l)) > 3)

(***************************************************************************)
(* C22: the actions of a summary are the texts of the first at most 5      *)
(* lines of the answer that begin, after trimming, with '-', the bullet or *)
(* '*' and whose text without bullet and blanks is longer than 3           *)
(* characters, in the order of the answer; no other line contributes.      *)
(***************************************************************************)
C22_ActionsAreFirstFiveBullets ==
    (summaries # <<>> /\ completions # <<>> /\ ~completions[1].outcome.raised) =>
        LET actions == summaries[1].actions
        IN  /\ Len(actions) = Min(5, Len(ActionLines))
            /\ \A k \in 1..Len(actions) : actions[k] = AfterBullet(ActionLines[k])

\* an answer with more than five action lines, of both kinds
C22_Witness ==
    /\ sum_pc = "done"
    /\ Len(ActionLines) > 5
    /\ Len(full.chats[1].actions) = 5
    /\ full.chats[1].actions[1] = <<"c", "a", "l", "l">>
    /\ full.chats[1].actions[5] = <<"d", "e", "e", "d">>

\* the update the handler frame h was made for
UpdateOf(h) ==
    CHOOSE u \in {updates[k] : k \in 1..Len(updates)} : u.update_id = h.update_id

\* a /chat command whose first argument is the name of no configured chat,
\* whatever the case of its letters
NamesUnknownChat(text) ==
    /\ Route(text) = "chat"
    /\ Len(SplitWs(text)) >= 2
    /\ \A i \in 1..Len(config) :
           LowerStr(config[i].display_name) # LowerStr(SplitWs(text)[2])

(***************************************************************************)
(* C23: the handler of a /chat that names a chat that is not configured    *)
(* does one thing: it sends one message that lists the display name of     *)
(* every configured chat.  It calls neither the collector (no resolution,  *)
(* no fetch) nor the completion service, and the checkpoints stay as they  *)
(* are in memory and in the state file.                                    *)
(***************************************************************************)
C23_UnknownChatListsNames ==
    [][(\E h \in handlers : NamesUnknownChat(UpdateOf(h).text)) =>
          /\ UNCHANGED <<last_ids, state_file>>
          /\ effects'.fetches = 0
          /\ effects'.completions = 0
          /\ handlers' = {}
          /\ Len(api_log') = 1
          /\ api_log'[1].method = "sendMessage"
          /\ \A i \in 1..Len(config) :
                 Pos(api_log'[1].text, <<"  + ">> \o config[i].display_name) # {}]_vars

\* the answer to a /chat for an unknown chat has been sent while checkpoints
\* of an earlier /summary exist
C23_Witness ==
    /\ handlers = {}
    /\ loop_pc = "dispatch"
    /\ \E k \in 1..Len(updates) :
           /\ updates[k].update_id = _last_update_id
           /\ Authorized(updates[k])
           /\ NamesUnknownChat(updates[k].text)
    /\ Len(api_log) = 1
    /\ Pos(api_log[1].text, <<"' not found.">>) # {}
    /\ last_ids # EmptyMap

(***************************************************************************)
(* C24: when a chat of the configuration file has neither identifier nor   *)
(* chat_id, start_assistant returns no bot: nothing is ever built with     *)
(* such a chat, the poll loop never starts and nothing is raised.          *)
(***************************************************************************)
C24_MissingIdentifierDisables ==
    (\E i \in 1..Len(config) : config[i].identifier = <<>> /\ config[i].chat_id = 0) =>
        /\ ~_running
        /\ loop_pc \in {"new", "disabled"}

(***************************************************************************)
(* C25: a get_unread or get_for_period call on a chat that cannot be       *)
(* resolved (the chat has neither chat_id nor identifier, or the           *)
(* resolution request fails) returns the empty list without raising,       *)
(* makes no message fetch, and leaves the checkpoints unchanged in memory  *)
(* and in the state file.                                                  *)
(***************************************************************************)
C25_UnresolvedChatIsEmpty ==
    [][((GetUnreadStep \/ GetForPeriodStep)
            /\ (\/ op'.outcome = "resolve_failed"
                \/ (config[op'.chat].chat_id = 0 /\ config[op'.chat].identifier = <<>>))) =>
          /\ op'.outcome = "resolve_failed"
          /\ ~op'.fetched
          /\ ret' = <<>>
          /\ UNCHANGED <<last_ids, state_file>>]_vars

\* the resolution request has failed in a get_unread for a chat that has a
\* new message and a checkpoint
C25_Witness ==
    /\ op.name = "get_unread"
    /\ op.outcome = "resolve_failed"
    /\ UsesPlatformToResolve(config[op.chat])
    /\ NewMessagesOf(config[op.chat]) # {}
    /\ ChatKey(config[op.chat]) \in DOMAIN last_ids

(***************************************************************************)
(* C26: whenever a get_unread or a reset_state returns having changed the  *)
(* checkpoint map in memory, the state file exists and holds exactly that  *)
(* map, so that loading it at a restart gives the checkpoints in effect.   *)
(***************************************************************************)
C26_FileEqualsMemory ==
    [][(last_ids' # last_ids /\ ~effects'.escaped) =>
          /\ state_file'.exists
          /\ _load_state(state_file') = last_ids']_vars

(***************************************************************************)
(* C27: the list a get_unread returns has at most max_messages messages;   *)
(* each has text or a voice, video-note or audio payload, an id above the  *)
(* checkpoint the chat had at the call, and a date after now minus 14      *)
(* days.                                                                   *)
(***************************************************************************)
C27_UnreadBounded ==
    op.name = "get_unread" =>
        /\ Len(ret) <= config[op.chat].max_messages
        /\ \A n \in 1..Len(ret) :
               /\ ret[n].kind \in {"text", "voice", "video_note", "audio"}
               /\ ret[n].id > op.last_id
               /\ ret[n].date > now - 14 * 24

\* a get_unread has returned max_messages messages, a voice message first,
\* and a newer message of the chat is left for the next call
C27_Witness ==
    /\ op.name = "get_unread"
    /\ op.outcome = "ok"
    /\ Len(ret) = config[op.chat].max_messages
    /\ ret[1].kind = "voice"
    /\ NewMessagesOf(config[op.chat]) # {}

(***************************************************************************)
(* C28: the list a get_for_period returns has at most max_messages         *)
(* messages; each has text and a date after now minus the parsed period.   *)
(***************************************************************************)
C28_PeriodBounded ==
    (op.name = "get_for_period" /\ op.outcome \in {"ok", "fetch_failed"}) =>
        /\ Len(ret) <= config[op.chat].max_messages
        /\ \A n \in 1..Len(ret) :
               /\ ret[n].kind = "text"
               /\ ret[n].date > now - (parsed.days * 24 + parsed.seconds \div 3600)

(***************************************************************************)
(* C29: every /summary that produces a digest and saves it writes an       *)
(* artifact of its own: each save adds one file to the summaries           *)
(* directory, so that after n such invocations there are n files and none  *)
(* was overwritten.                                                        *)
(***************************************************************************)
C29_OneArtifactPerSummary ==
    [][effects'.saves = effects.saves + 1 =>
          /\ DOMAIN storage \subseteq DOMAIN storage'
          /\ Cardinality(DOMAIN storage') = Cardinality(DOMAIN storage) + 1]_vars

\* the updates the server holds that are past the offset of the bot
Pending(last) == SelectSeq(updates, LAMBDA u : u.update_id > last)

(***************************************************************************)
(* C30: an update is dispatched at most once and none is lost to an        *)
(* exception.  Every dispatch takes the first update of the polled batch,  *)
(* whose id is above every id dispatched before, and the offset is already *)
(* past an update while its handler runs; whatever a step does, handler    *)
(* exception included, the updates past the offset stay with the server,   *)
(* and the next successful poll returns all of them in order.              *)
(***************************************************************************)
C30_DispatchedOnceNoneLost ==
    [][/\ _last_update_id' # _last_update_id =>
              /\ poll_batch # <<>>
              /\ _last_update_id' = Head(poll_batch).update_id
              /\ _last_update_id' > _last_update_id
       /\ \A h \in handlers' : h.update_id <= _last_update_id'
       /\ \A h \in handlers' \ handlers :
              (\A g \in handlers : g.update_id # h.update_id) =>
                  h.update_id = _last_update_id' /\ _last_update_id' # _last_update_id
       /\ \A k \in 1..Len(updates) :
              updates[k].update_id > _last_update_id' =>
                  \E j \in 1..Len(updates') : updates'[j] = updates[k]
       /\ effects'.escaped /\ ~effects.escaped =>
              Len(Pending(_last_update_id)') = effects'.abandoned
       /\ (loop_pc = "polling" /\ loop_pc' = "dispatch") =>
              poll_batch' = Pending(_last_update_id)]_vars

\* a handler has raised with an update behind it in the batch, and a later
\* poll has returned that update, which is about to be dispatched
C30_Witness ==
    /\ effects.escaped
    /\ effects.abandoned > 0
    /\ loop_pc = "dispatch"
    /\ poll_batch # <<>>
    /\ Head(poll_batch).update_id = _last_update_id + 1
    /\ Authorized(Head(poll_batch))
    /\ Route(Head(poll_batch).text) # "none"

(***************************************************************************)
(* C31: within one invocation, the request that edits the status message   *)
(* with the final result is the last request about that message: nothing   *)
(* is sent or edited after it, whatever happens while the artifact is      *)
(* stored.                                                                 *)
(***************************************************************************)
C31_FinalEditIsLast ==
    \A k \in 1..(Len(api_log) - 1) : api_log[k].role # "edit_final"

(***************************************************************************)
(* C32: the incremental fetch does not starve.  A get_unread that the      *)
(* platform answers successfully for a chat that has a message with        *)
(* content above the checkpoint and inside the lookback window makes       *)
(* progress towards it: it returns a message or moves the checkpoint.  A   *)
(* successful call that does neither leaves everything as it was, so that  *)
(* every later call does the same and the message is never returned.       *)
(***************************************************************************)
C32_FetchMakesProgress ==
    [][(/\ GetUnreadStep
        /\ op'.outcome = "ok"
        /\ \E m \in NewMessagesOf(config[collect_i]) :
               m.kind \in {"text", "voice", "video_note", "audio"}) =>
          \/ ret' # <<>>
          \/ Get(last_ids', ChatKey(config[collect_i]), 0)
                 > Get(last_ids, ChatKey(config[collect_i]), 0)]_vars

(***************************************************************************)
(* C33: a message handed to the caller is never handed over again before   *)
(* a reset.  get_unread returns only ids above the checkpoint of the chat  *)
(* key, and the checkpoint never decreases without a reset; so no id is    *)
(* returned twice exactly when every call, successful or failing, leaves   *)
(* the checkpoint at or above every id it returned.                        *)
(***************************************************************************)
C33_ReturnedIdsAreCovered ==
    [][GetUnreadStep =>
          /\ \A n \in 1..Len(ret') : ret'[n].id > Get(last_ids, op'.key, 0)
          /\ \A n \in 1..Len(ret') : ret'[n].id <= Get(last_ids', op'.key, 0)]_vars

(***************************************************************************)
(* C34: when collect_all_unread returns, the mapping it returns has, for   *)
(* every chat whose get_unread succeeded with messages (and so advanced    *)
(* the checkpoint of the chat), an entry that holds that chat and exactly  *)
(* those messages.                                                         *)
(***************************************************************************)
C34_NoBatchDropped ==
    (pc = "done" /\ op.name = "get_unread") =>
        \A k \in 1..Len(outcomes) :
            (outcomes[k].outcome = "ok" /\ outcomes[k].messages # <<>>) =>
                \E j \in 1..Len(result) :
                    /\ result[j].value.chat = outcomes[k].chat
                    /\ result[j].value.messages = outcomes[k].messages

\* the chats a reset_state with argument name is about: all of them without
\* a name, else the first chat of that name
ResetChats(name) ==
    IF name = <<>> THEN 1..Len(config)
    ELSE {n \in NamedChats(name) : \A y \in NamedChats(name) : n <= y}

\* the messages with content among the max_messages oldest messages of the
\* lookback window of entity e
FirstWindow(e, max_messages) ==
    LET inside == SelectSeq(chat_msgs[e],
                            LAMBDA m : m.date > now - DEFAULT_FETCH_DAYS * 24)
    IN  SelectSeq(SubSeq(inside, 1, Min(max_messages, Len(inside))),
                  LAMBDA m : m.kind \in {"text", "voice", "video_note", "audio"})

(***************************************************************************)
(* C35: after reset_state for a configured chat, or for all chats, a       *)
(* get_unread for such a chat that the platform answers reads checkpoint   *)
(* 0 under the key reset_state removed, and returns what a first fetch     *)
(* returns: the messages with content among the max_messages oldest        *)
(* messages of the lookback window, those returned before the reset        *)
(* included.                                                               *)
(***************************************************************************)
C35_ResetThenFetchReprocesses ==
    [][(ResetStep /\ ResetChats(op'.arg) # {}) =>
          \A n \in ResetChats(op'.arg) :
              LET g == get_unread(config[n], TRUE, 0 - 1)'
                  r == _resolve_chat(config[n], TRUE)
              IN  /\ g.key \notin DOMAIN last_ids'
                  /\ ~r.raised =>
                         /\ g.outcome = "ok"
                         /\ g.last_id = 0
                         /\ g.messages = FirstWindow(r.entity, config[n].max_messages)]_vars

\* reset_state("work") was called when Work had a checkpoint, and the next
\* get_unread returns a message that is not above that checkpoint
C35_Witness ==
    /\ op.name = "reset_state"
    /\ op.arg = <<"w", "o", "r", "k">>
    /\ op.last_id > 0
    /\ WorkKey \notin DOMAIN last_ids
    /\ \E x \in 1..Len(get_unread(config[1], TRUE, 0 - 1).messages) :
           get_unread(config[1], TRUE, 0 - 1).messages[x].id <= op.last_id

\* a /summary handler that has got no message from the chats it has asked
NothingCollected(h) == h.cmd = "summary" /\ TotalMessages(h.messages) = 0

(***************************************************************************)
(* C36: a /summary for which no configured chat yields a message ends with *)
(* the request that puts the "no new messages" text in the status message  *)
(* (an edit of the placeholder when it has an id).  From its first request *)
(* to that one it makes no completion call and saves no artifact, the      *)
(* summaries directory stays as it is, and so do the checkpoints in        *)
(* memory and in the state file.                                           *)
(***************************************************************************)
C36_NothingNewChangesNothing ==
    [][/\ \A h \in handlers' :
              (NothingCollected(h) /\ h.i > Len(config)) =>
                  /\ h.pc = "edit_empty"
                  /\ effects'.completions = 0
                  /\ effects'.saves = 0
       /\ \A h \in handlers :
              (NothingCollected(h)
                   /\ (handlers' = {} \/ \E g \in handlers' : NothingCollected(g))) =>
                  /\ UNCHANGED <<last_ids, state_file, storage>>
                  /\ effects'.completions = 0
                  /\ effects'.saves = 0
                  /\ handlers' = {} =>
                         LET req == api_log'[Len(api_log')]
                         IN  /\ Len(api_log') = 2
                             /\ req.text = <<"No new messages">>
                             /\ h.status_msg_id # 0 =>
                                    /\ req.method = "editMessageText"
                                    /\ req.message_id = h.status_msg_id]_vars

\* a /summary that found nothing has edited its placeholder while the chats
\* have checkpoints and an artifact of an earlier /summary exists
C36_Witness ==
    /\ handlers = {}
    /\ loop_pc = "dispatch"
    /\ Len(api_log) = 2
    /\ api_log[2].method = "editMessageText"
    /\ api_log[2].text = <<"No new messages">>
    /\ effects.fetches = Len(config)
    /\ last_ids # EmptyMap
    /\ DOMAIN storage # {}

(***************************************************************************)
(* C37: a /chat for a configured chat, whatever its period token (absent,  *)
(* malformed, negative, too large for a timedelta), ends with a request    *)
(* that puts in the status message the summary of the chat, the "no        *)
(* messages" text or an error line (an edit of the placeholder when it has *)
(* an id); no step of it changes the checkpoints in memory or in the state *)
(* file.                                                                   *)
(***************************************************************************)
C37_ChatEndsWithStatusEdit ==
    [][\A h \in handlers :
           (h.cmd = "chat" /\ h.pc # "send_reply") =>
               /\ UNCHANGED <<last_ids, state_file>>
               /\ handlers' = {} =>
                      LET req == api_log'[Len(api_log')]
                      IN  /\ Len(api_log') >= 2
                          /\ req.text # <<>>
                          /\ \/ /\ Head(req.text) = "<b>"
                                /\ Pos(req.text, config[h.chat].display_name) # {}
                                /\ effects'.completions = 1
                             \/ /\ Head(req.text) = "No messages in "
                                /\ effects'.completions = 0
                             \/ /\ Head(req.text) = "Error: "
                                /\ effects'.raised
                          /\ h.status_msg_id # 0 =>
                                 /\ req.method = "editMessageText"
                                 /\ req.message_id = h.status_msg_id]_vars

\* a /chat whose period no timedelta holds has ended with the error line in
\* its placeholder, while checkpoints of an earlier /summary exist
C37_Witness ==
    /\ handlers = {}
    /\ loop_pc = "dispatch"
    /\ \E k \in 1..Len(updates) :
           /\ updates[k].update_id = _last_update_id
           /\ Route(updates[k].text) = "chat"
           /\ Len(SplitWs(updates[k].text)) = 3
           /\ _parse_period(SplitWs(updates[k].text)[3]).raised
    /\ Len(api_log) = 2
    /\ api_log[2].method = "editMessageText"
    /\ Head(api_log[2].text) = "Error: "
    /\ last_ids # EmptyMap

\* the command whose prefix the text begins with, letter for letter; "none"
\* when it begins with none of the five
PrefixOf(text) ==
    LET begins(p) == Len(text) >= Len(p) /\ SubSeq(text, 1, Len(p)) = p
    IN  IF begins(<<"/", "s", "u", "m", "m", "a", "r", "y">>) THEN "summary"
        ELSE IF begins(<<"/", "c", "h", "a", "t", "s">>) THEN "chats"
        ELSE IF begins(<<"/", "c", "h", "a", "t", " ">>) THEN "chat"
        ELSE IF begins(<<"/", "h", "e", "l", "p">>) THEN "help"
        ELSE IF begins(<<"/", "r", "e", "s", "e", "t">>) THEN "reset"
        ELSE "none"

(***************************************************************************)
(* C38: routing goes by case-sensitive prefix.  At most one handler runs   *)
(* for an update; the dispatch of an authorized text that begins with      *)
(* "/chats" starts the chat-list handler and not the /chat handler, that   *)
(* of a text that begins with "/chat " starts the /chat handler, and every *)
(* handler that starts is the one of the prefix of its text; the dispatch  *)
(* of an authorized text that begins with none of the five prefixes starts *)
(* no handler; and every request to the Bot API is made by a handler.      *)
(***************************************************************************)
C38_RoutingByPrefix ==
    [][/\ Cardinality(handlers') <= 1
       /\ _last_update_id' # _last_update_id =>
              LET u == Head(poll_batch)
                  started == handlers' \ handlers
              IN  /\ \A h \in started :
                         /\ h.update_id = u.update_id
                         /\ Authorized(u)
                         /\ h.cmd = PrefixOf(u.text)
                  /\ (Authorized(u) /\ PrefixOf(u.text) \in {"chats", "chat"}) =>
                         \E h \in started : h.cmd = PrefixOf(u.text)
                  /\ (Authorized(u) /\ PrefixOf(u.text) = "none") =>
                         /\ handlers' = {}
                         /\ api_log' = api_log
       /\ (api_log' # api_log /\ api_log' # <<>>) => handlers # {}]_vars

\* "/chats work" from the configured chat has been answered by the
\* chat-list handler
C38_Witness ==
    /\ handlers = {}
    /\ loop_pc = "dispatch"
    /\ \E k \in 1..Len(updates) :
           /\ updates[k].update_id = _last_update_id
           /\ Authorized(updates[k])
           /\ updates[k].text = <<"/", "c", "h", "a", "t", "s", " ", "w", "o", "r", "k">>
    /\ Len(api_log) = 1
    /\ api_log[1].text = <<"Monitored chats">>

====
